---- MODULE Spec2Model ----
(***************************************************************************)
(* A model of ProxyFS's local lock manager (dlm/llm.go) and of the locking *)
(* done by the filesystem operations built on it (fs/api_internal.go).     *)
(*                                                                         *)
(* Threads run commonLock / unlock / isLockHeld step by step: one step per *)
(* stretch of code between two points where the thread can block (the      *)
(* global mutex, a track's mutex, the request's condition variable). A     *)
(* track's mutex is taken at the start of such a stretch and given up at   *)
(* its end (by the unlock, or by Cond.Wait), so it is free between steps;  *)
(* the global mutex is held from one stretch into the next.                *)
(***************************************************************************)
EXTENDS Integers, Sequences, FiniteSets, TLC

\* ------------------------------------------------------------------ bounds
NumThreads == 3
NumKeys == 2
MaxListLen == 3
MaxEntries == 2
NumClients == 2
MaxOffset == 2
MaxFlocks == 3

\* The frames a goroutine's stack has room for; a call beyond them is the
\* runtime's fatal stack overflow.
MaxStack == 4

\* ^uint64(0), scaled: above every start and every start + length of the
\* Flock requests, so that no sum of them wraps around, and above every count
\* of owners that the callers of a lock can make up.
MaxUint64 == 2 * MaxOffset + 1

Threads == 1..NumThreads
Keys == 1..NumKeys
\* The heap: a track is named by its lock id and by how many older tracks of
\* that lock id were still referred to when it was allocated.
TrackIds == Keys \X {0, 1}
NoTrack == <<0, 0>>
\* globals' mutex is free: no thread has it.
NoThread == CHOOSE n \in 0..NumThreads : n \notin Threads

\* ------------------------------------------------------- llm.go constants
\* lockState
nilType == "nilType"
shared == "shared"
exclusive == "exclusive"
stale == "stale"

\* LockHeldType
READLOCK == "READLOCK"
WRITELOCK == "WRITELOCK"
ANYLOCK == "ANYLOCK"

VARIABLES
    localLockMap,   \* globals.localLockMap: lock id -> track (NoTrack: no entry)
    tracks,         \* the localLockTrack objects of the heap
    globalsMutex,   \* globals' mutex: the thread holding it, or NoThread
    pc,             \* each thread's position inside the lock manager
    req,            \* each thread's current call: the RWLockStruct and arguments
    myTrack,        \* each thread's local variable track
    wakeUp,         \* localRequest.wakeUp of each thread's pending request
    ret,            \* what each thread's last lock manager call returned
    granted,        \* history: the grants made and not yet handed back
    mustFollow,     \* history: writers queued before a reader's request
    fs,             \* each thread's filesystem operation and its position in it
    vol             \* the volume the filesystem operations work on

vars == <<localLockMap, tracks, globalsMutex, pc, req, myTrack,
          wakeUp, ret, granted, mustFollow, fs, vol>>

\* A track of the heap that nothing refers to.
FreeTrack ==
    [owners |-> 0, waiters |-> 0, state |-> nilType,
     listOfOwners |-> <<>>, waitReqQ |-> <<>>]

\* track = &localLockTrack{lockId: l.LockID, state: stale}; waitReqQ = list.New()
NewTrack ==
    [owners |-> 0, waiters |-> 0, state |-> stale,
     listOfOwners |-> <<>>, waitReqQ |-> <<>>]

NoReq ==
    [call |-> "none", LockID |-> 0, LockCallerID |-> 0,
     requestedState |-> nilType, try |-> FALSE, lockHeldType |-> ANYLOCK]

\* A thread that runs no filesystem operation.
NoOp == [op |-> "none", at |-> "none"]

\* No volume is mounted.
NoVolume == [mounted |-> FALSE]

\* The tracks something still refers to: the map, or a thread's local variable.
UsedTracks ==
    {localLockMap[k] : k \in DOMAIN localLockMap} \cup {myTrack[t] : t \in Threads}

\* The allocator: a track nothing refers to.
AllocTrack(k) ==
    LET g == CHOOSE i \in {0, 1} :
                /\ <<k, i>> \notin UsedTracks
                /\ \A j \in 0..(i - 1) : <<k, j>> \in UsedTracks
    IN  <<k, g>>

\* ------------------------------------------------------ pure functions

CallerInListOfOwners(listOfOwners, callerID) ==
    \E i \in 1..Len(listOfOwners) : listOfOwners[i] = callerID

\* The slice is passed by value. append(listOfOwners[:i], listOfOwners[i+1:]...)
\* moves the tail one place left inside the backing array the caller's slice
\* shares, and the new, shorter slice header is assigned to the callee's own
\* parameter only: the caller's track.listOfOwners keeps its length, and so its
\* last element twice (or the removed one, if that was the last).
RemoveFromListOfOwners(listOfOwners, callerID) ==
    LET n == Len(listOfOwners)
        i == CHOOSE j \in 1..n :
                /\ listOfOwners[j] = callerID
                /\ \A m \in 1..(j - 1) : listOfOwners[m] # callerID
    IN  [j \in 1..n |->
            IF j < i THEN listOfOwners[j]
            ELSE IF j < n THEN listOfOwners[j + 1]
            ELSE listOfOwners[n]]

IsLockHeld(track, callerID, lockHeldType) ==
    CASE lockHeldType = READLOCK ->
            (track.state = shared) /\ CallerInListOfOwners(track.listOfOwners, callerID)
      [] lockHeldType = WRITELOCK ->
            (track.state = exclusive) /\ CallerInListOfOwners(track.listOfOwners, callerID)
      [] lockHeldType = ANYLOCK ->
            ((track.state = exclusive) \/ (track.state = shared))
                /\ CallerInListOfOwners(track.listOfOwners, callerID)
      [] OTHER -> FALSE

\* The track after grantAndSignal; the wake-up itself is GrantedThreads below.
GrantAndSignal(track, localQRequest) ==
    [track EXCEPT !.state = localQRequest.requestedState,
                  !.listOfOwners = Append(@, localQRequest.LockCallerID),
                  !.owners = @ + 1]

\* The loop of processLocalQ: the track it leaves and the requests it granted.
RECURSIVE ProcessLoop(_, _)

\* The loop without line 200's PushFront: a writer that cannot be granted yet
\* is dropped from the queue.
ProcessLoopDroppingWriter(track, done) ==
    IF Len(track.waitReqQ) = 0
    THEN [track |-> track, grants |-> done]
    ELSE LET localQRequest == Head(track.waitReqQ)
             popped == [track EXCEPT !.waitReqQ = Tail(@)]
         IN  IF (localQRequest.requestedState = exclusive) /\ (track.state = stale)
             THEN [track |-> GrantAndSignal(popped, localQRequest),
                   grants |-> Append(done, localQRequest)]
             ELSE IF localQRequest.requestedState = exclusive
             THEN [track |-> popped, grants |-> done]
             ELSE ProcessLoop(GrantAndSignal(popped, localQRequest),
                              Append(done, localQRequest))

ProcessLoop(track, done) ==
    IF Len(track.waitReqQ) = 0
    THEN [track |-> track, grants |-> done]
    ELSE LET localQRequest == Head(track.waitReqQ)
             popped == [track EXCEPT !.waitReqQ = Tail(@)]
         IN  IF (localQRequest.requestedState = exclusive) /\ (track.state = stale)
             THEN [track |-> GrantAndSignal(popped, localQRequest),
                   grants |-> Append(done, localQRequest)]
             ELSE IF localQRequest.requestedState = exclusive
             THEN [track |-> track, grants |-> done]
             ELSE ProcessLoop(GrantAndSignal(popped, localQRequest),
                              Append(done, localQRequest))

\* processLocalQ letting the readers of the queue pass the writers before them.
ProcessLocalQReadersFirst(track) ==
    LET IsReader(r) == r.requestedState = shared
        IsWriter(r) == r.requestedState = exclusive
        readersFirst == SelectSeq(track.waitReqQ, IsReader)
                            \o SelectSeq(track.waitReqQ, IsWriter)
    IN  IF Len(track.waitReqQ) = 0 \/ track.state = exclusive
        THEN [track |-> track, grants |-> <<>>]
        ELSE ProcessLoop([track EXCEPT !.waitReqQ = readersFirst], <<>>)

ProcessLocalQ(track) ==
    IF Len(track.waitReqQ) = 0 \/ track.state = exclusive
    THEN [track |-> track, grants |-> <<>>]
    ELSE ProcessLoop(track, <<>>)

\* The test with its first half left out: a Try for exclusive passes on a
\* shared track.
TryFailsOnExclusiveOnly(requestedState, state) ==
    state = exclusive

\* The test of a Try acquire, lines 238-247.
TryFails(requestedState, state) ==
    IF (requestedState = exclusive) /\ (state # stale)
    THEN TRUE
    ELSE state = exclusive

\* The condition without its second half: the waiters are forgotten.
LastOwner(track) ==
    track.owners = 1

\* The condition under which unlock removes the track from the map.
LastHolder(track) ==
    (track.owners = 1) /\ (track.waiters = 0)

GrantedThreads(grants) == {grants[i].thread : i \in 1..Len(grants)}
GrantedSet(grants, k) ==
    {<<grants[i].LockCallerID, k, grants[i].requestedState>> : i \in 1..Len(grants)}

\* ------------------------------------------------------------- Init

LlmInit ==
    /\ localLockMap = [k \in Keys |-> NoTrack]
    /\ tracks = [n \in TrackIds |-> FreeTrack]
    /\ globalsMutex = NoThread
    /\ pc = [t \in Threads |-> "idle"]
    /\ req = [t \in Threads |-> NoReq]
    /\ myTrack = [t \in Threads |-> NoTrack]
    /\ wakeUp = [t \in Threads |-> FALSE]
    /\ ret = [t \in Threads |-> "none"]
    /\ granted = {}
    /\ mustFollow = [t \in Threads |-> {}]
    /\ fs = [t \in Threads |-> NoOp]

Init ==
    /\ LlmInit
    /\ vol = NoVolume

\* ------------------------------------------------- calls into the lock manager
\* A caller of the lock manager is a thread outside of it (pc = "idle").

\* The heap without the tracks that neither map nor thread refers to any more.
Collect(trs, map, mine) ==
    [n \in DOMAIN trs |->
        IF n \in {map[k] : k \in DOMAIN map} \cup {mine[t] : t \in Threads}
        THEN trs[n] ELSE FreeTrack]

\* The record of a call into the lock manager.
Call(call, k, c, requestedState, try, lockHeldType) ==
    [call |-> call, LockID |-> k, LockCallerID |-> c,
     requestedState |-> requestedState, try |-> try, lockHeldType |-> lockHeldType]

\* ----------------------------------------------------------- commonLock

\* commonLock without the lock-coupling: globals.Unlock() comes before
\* track.Mutex.Lock(), so the track is looked up and then left unguarded.
CommonLockEnterUncoupled(t, k, c, requestedState, try) ==
    /\ pc[t] = "idle"
    /\ globalsMutex = NoThread
    /\ globalsMutex' = NoThread
    /\ req' = [req EXCEPT ![t] = Call("commonLock", k, c, requestedState, try, ANYLOCK)]
    /\ ret' = [ret EXCEPT ![t] = "none"]
    /\ mustFollow' = [mustFollow EXCEPT ![t] = {}]
    /\ IF localLockMap[k] = NoTrack
       THEN /\ localLockMap' = [localLockMap EXCEPT ![k] = AllocTrack(k)]
            /\ tracks' = [tracks EXCEPT ![AllocTrack(k)] = NewTrack]
            /\ myTrack' = [myTrack EXCEPT ![t] = AllocTrack(k)]
       ELSE /\ myTrack' = [myTrack EXCEPT ![t] = localLockMap[k]]
            /\ UNCHANGED <<localLockMap, tracks>>
    /\ pc' = [pc EXCEPT ![t] = "cl_track"]
    /\ UNCHANGED <<wakeUp, granted>>

\* l.commonLock(requestedState, try) on l = {LockID: k, LockCallerID: c}, lines
\* 219-229: globals.Lock(); look the track up, or create it.
CommonLockEnter(t, k, c, requestedState, try) ==
    /\ pc[t] = "idle"
    /\ globalsMutex = NoThread
    /\ globalsMutex' = t
    /\ req' = [req EXCEPT ![t] = Call("commonLock", k, c, requestedState, try, ANYLOCK)]
    /\ ret' = [ret EXCEPT ![t] = "none"]
    /\ mustFollow' = [mustFollow EXCEPT ![t] = {}]
    /\ IF localLockMap[k] = NoTrack
       THEN /\ localLockMap' = [localLockMap EXCEPT ![k] = AllocTrack(k)]
            /\ tracks' = [tracks EXCEPT ![AllocTrack(k)] = NewTrack]
            /\ myTrack' = [myTrack EXCEPT ![t] = AllocTrack(k)]
       ELSE /\ myTrack' = [myTrack EXCEPT ![t] = localLockMap[k]]
            /\ UNCHANGED <<localLockMap, tracks>>
    /\ pc' = [pc EXCEPT ![t] = "cl_track"]
    /\ UNCHANGED <<wakeUp, granted>>

\* The writers whose requests wait in the queue of a track held shared.
QueuedWriters(track, k) ==
    IF track.state = shared
    THEN {<<track.waitReqQ[i].LockCallerID, k>> :
            i \in {j \in 1..Len(track.waitReqQ) :
                     track.waitReqQ[j].requestedState = exclusive}}
    ELSE {}

\* Lines 231-261: track.Mutex.Lock() with globals still held; globals.Unlock();
\* the Try test; else queue the request, run processLocalQ and either go on
\* (granted at once: waiters--, return nil) or wait on the request's Cond, which
\* gives the track's mutex up. The deferred track.Mutex.Unlock() runs on return.
CommonLockRequest(t) ==
    /\ pc[t] = "cl_track"
    /\ globalsMutex' = NoThread
    /\ LET n == myTrack[t]
           track == tracks[n]
           r == req[t]
           localRequest == [requestedState |-> r.requestedState,
                            LockCallerID |-> r.LockCallerID, thread |-> t]
           queued == [track EXCEPT !.waitReqQ = Append(@, localRequest),
                                   !.waiters = @ + 1]
           res == ProcessLocalQ(queued)
       IN  IF r.try /\ TryFails(r.requestedState, track.state)
           THEN /\ ret' = [ret EXCEPT ![t] = "TryAgain"]
                /\ pc' = [pc EXCEPT ![t] = "idle"]
                /\ req' = [req EXCEPT ![t] = NoReq]
                /\ myTrack' = [myTrack EXCEPT ![t] = NoTrack]
                /\ tracks' = Collect(tracks, localLockMap, myTrack')
                /\ UNCHANGED <<wakeUp, granted, mustFollow>>
           ELSE /\ granted' = granted \cup GrantedSet(res.grants, r.LockID)
                /\ mustFollow' = [mustFollow EXCEPT ![t] =
                                    IF r.try THEN {} ELSE QueuedWriters(track, r.LockID)]
                /\ IF t \in GrantedThreads(res.grants)
                   THEN /\ wakeUp' = [u \in Threads |->
                                        IF u = t THEN FALSE
                                        ELSE wakeUp[u] \/ u \in GrantedThreads(res.grants)]
                        /\ myTrack' = [myTrack EXCEPT ![t] = NoTrack]
                        /\ tracks' = Collect(
                               [tracks EXCEPT ![n] = [res.track EXCEPT !.waiters = @ - 1]],
                               localLockMap, myTrack')
                        /\ ret' = [ret EXCEPT ![t] = "ok"]
                        /\ req' = [req EXCEPT ![t] = NoReq]
                        /\ pc' = [pc EXCEPT ![t] = "idle"]
                   ELSE /\ wakeUp' = [u \in Threads |->
                                        wakeUp[u] \/ u \in GrantedThreads(res.grants)]
                        /\ tracks' = [tracks EXCEPT ![n] = res.track]
                        /\ pc' = [pc EXCEPT ![t] = "cl_wait"]
                        /\ UNCHANGED <<myTrack, ret, req>>
    /\ UNCHANGED <<localLockMap, fs, vol>>

\* Lines 259-270: Cond.Wait() returns with the track's mutex once the request
\* was signalled; wakeUp is set, so the loop ends; waiters--; return nil.
CommonLockWake(t) ==
    /\ pc[t] = "cl_wait"
    /\ wakeUp[t]
    /\ wakeUp' = [wakeUp EXCEPT ![t] = FALSE]
    /\ myTrack' = [myTrack EXCEPT ![t] = NoTrack]
    /\ tracks' = Collect([tracks EXCEPT ![myTrack[t]].waiters = @ - 1],
                         localLockMap, myTrack')
    /\ ret' = [ret EXCEPT ![t] = "ok"]
    /\ req' = [req EXCEPT ![t] = NoReq]
    /\ pc' = [pc EXCEPT ![t] = "idle"]
    /\ UNCHANGED <<localLockMap, globalsMutex, granted, mustFollow, fs, vol>>

\* --------------------------------------------------------------- unlock

\* l.unlock() on l = {LockID: k, LockCallerID: c}, lines 277-281: globals.Lock();
\* the track must be in the map, else panic.
UnlockEnter(t, k, c) ==
    /\ pc[t] = "idle"
    /\ globalsMutex = NoThread
    /\ req' = [req EXCEPT ![t] = Call("unlock", k, c, nilType, FALSE, ANYLOCK)]
    /\ ret' = [ret EXCEPT ![t] = "none"]
    /\ granted' = {g \in granted : ~(g[1] = c /\ g[2] = k)}
    /\ IF localLockMap[k] = NoTrack
       THEN /\ pc' = [pc EXCEPT ![t] = "panic"]
            /\ UNCHANGED <<globalsMutex, myTrack>>
       ELSE /\ globalsMutex' = t
            /\ myTrack' = [myTrack EXCEPT ![t] = localLockMap[k]]
            /\ pc' = [pc EXCEPT ![t] = "ul_track"]
    /\ UNCHANGED <<localLockMap, tracks, wakeUp, mustFollow>>

\* Lines 283-314: track.Mutex.Lock(); the last holder deletes the track from
\* the map; globals.Unlock(); owners-- on a uint64; removeFromListOfOwners
\* (panic if the caller is not listed); stale when no owner is left, else the
\* panic of line 303 if owners < 0; processLocalQ; track.Mutex.Unlock().
UnlockRelease(t) ==
    /\ pc[t] = "ul_track"
    /\ LET n == myTrack[t]
           track == tracks[n]
           r == req[t]
           map == IF LastHolder(track)
                  THEN [localLockMap EXCEPT ![r.LockID] = NoTrack]
                  ELSE localLockMap
           owners == (track.owners - 1) % (MaxUint64 + 1)
           left == [track EXCEPT
                      !.owners = owners,
                      !.listOfOwners = RemoveFromListOfOwners(@, r.LockCallerID),
                      !.state = IF owners = 0 THEN stale ELSE @]
           res == ProcessLocalQ(left)
       IN  /\ localLockMap' = map
           /\ IF \/ ~CallerInListOfOwners(track.listOfOwners, r.LockCallerID)
                 \/ (owners # 0 /\ owners < 0)
              THEN /\ pc' = [pc EXCEPT ![t] = "panic"]
                   /\ tracks' = [tracks EXCEPT ![n].owners = owners]
                   /\ UNCHANGED <<myTrack, wakeUp, ret, req, granted, mustFollow>>
              ELSE /\ granted' = granted \cup GrantedSet(res.grants, r.LockID)
                   /\ wakeUp' = [u \in Threads |->
                                   wakeUp[u] \/ u \in GrantedThreads(res.grants)]
                   /\ mustFollow' = [u \in Threads |->
                                       mustFollow[u] \ {<<r.LockCallerID, r.LockID>>}]
                   /\ myTrack' = [myTrack EXCEPT ![t] = NoTrack]
                   /\ tracks' = Collect([tracks EXCEPT ![n] = res.track], map, myTrack')
                   /\ ret' = [ret EXCEPT ![t] = "ok"]
                   /\ req' = [req EXCEPT ![t] = NoReq]
                   /\ pc' = [pc EXCEPT ![t] = "idle"]
    /\ globalsMutex' = NoThread
    /\ UNCHANGED <<fs, vol>>

\* ----------------------------------------------------------- isLockHeld

\* isLockHeld(k, c, lockHeldType), lines 138-147: globals.Lock(); no track in
\* the map: globals.Unlock(), return false.
IsLockHeldEnter(t, k, c, lockHeldType) ==
    /\ pc[t] = "idle"
    /\ globalsMutex = NoThread
    /\ IF localLockMap[k] = NoTrack
       THEN /\ ret' = [ret EXCEPT ![t] = "notHeld"]
            /\ UNCHANGED <<globalsMutex, myTrack, pc, req>>
       ELSE /\ globalsMutex' = t
            /\ myTrack' = [myTrack EXCEPT ![t] = localLockMap[k]]
            /\ pc' = [pc EXCEPT ![t] = "ih_track"]
            /\ req' = [req EXCEPT ![t] = Call("isLockHeld", k, c, nilType, FALSE, lockHeldType)]
            /\ ret' = [ret EXCEPT ![t] = "none"]
    /\ UNCHANGED <<localLockMap, tracks, wakeUp, granted, mustFollow>>

\* Lines 149-163: track.Mutex.Lock(); globals.Unlock(); the answer; the deferred
\* track.Mutex.Unlock().
IsLockHeldAnswer(t) ==
    /\ pc[t] = "ih_track"
    /\ globalsMutex' = NoThread
    /\ ret' = [ret EXCEPT ![t] =
                 IF IsLockHeld(tracks[myTrack[t]], req[t].LockCallerID,
                               req[t].lockHeldType)
                 THEN "held" ELSE "notHeld"]
    /\ myTrack' = [myTrack EXCEPT ![t] = NoTrack]
    /\ req' = [req EXCEPT ![t] = NoReq]
    /\ pc' = [pc EXCEPT ![t] = "idle"]
    /\ UNCHANGED <<localLockMap, tracks, wakeUp, granted, mustFollow, fs, vol>>

\* One step of a thread inside commonLock or unlock.
LockStep(t) ==
    \/ CommonLockRequest(t)
    \/ CommonLockWake(t)
    \/ UnlockRelease(t)

\* A panic aborts the process.
Aborted == \E t \in Threads : pc[t] = "panic"

\* --------------------------------------- the lock manager under its callers
\* Each thread is one caller-id. It acquires a lock while it holds none (callers
\* must not re-enter), in either mode, blocking or not; it releases the lock it
\* was granted; the last thread asks isLockHeld about any caller.

Holds(c) == {g \in granted : g[1] = c}

\* Whether the owner list and the queue of k's track may still grow.
Room(k) ==
    LET n == localLockMap[k]
        coming == Cardinality({t \in Threads :
                     pc[t] = "cl_track" /\ req[t].LockID = k})
    IN  (IF n = NoTrack THEN 0
         ELSE Len(tracks[n].listOfOwners) + Len(tracks[n].waitReqQ)) + coming
            < MaxListLen

AcquireOn(t, k) ==
    \E requestedState \in {shared, exclusive}, try \in BOOLEAN :
        /\ Holds(t) = {}
        /\ Room(k)
        /\ CommonLockEnter(t, k, t, requestedState, try)
        /\ UNCHANGED <<fs, vol>>

Acquire(t) == \E k \in Keys : AcquireOn(t, k)

Release(t) ==
    \E g \in Holds(t) :
        /\ UnlockEnter(t, g[2], t)
        /\ UNCHANGED <<fs, vol>>

Query(t) ==
    \E k \in Keys, c \in Threads, lockHeldType \in {READLOCK, WRITELOCK, ANYLOCK} :
        /\ t = NumThreads
        /\ IsLockHeldEnter(t, k, c, lockHeldType)
        /\ UNCHANGED <<fs, vol>>

Next ==
    /\ ~Aborted
    /\ \E t \in Threads :
          Acquire(t) \/ Release(t) \/ Query(t) \/ LockStep(t) \/ IsLockHeldAnswer(t)

Spec == Init /\ [][Next]_vars

\* The callers contending for one lock, each of them scheduled fairly: a thread
\* inside the lock manager goes on, and a thread that holds a lock hands it back.
\* sync.Mutex lets no thread wait for ever for a mutex that is freed again and
\* again, so the unlock that starts with globals.Lock() is strongly fair.
ContendedKey == CHOOSE k \in Keys : TRUE

LiveNext ==
    /\ ~Aborted
    /\ \E t \in Threads :
          AcquireOn(t, ContendedKey) \/ Release(t) \/ LockStep(t)

LiveSpec ==
    /\ Init
    /\ [][LiveNext]_vars
    /\ \A t \in Threads : WF_vars(LockStep(t)) /\ SF_vars(Release(t))


\* ------------------------------------------ the filesystem operations' locks
\* fs/api_internal.go. An inode's lock id is its number. Each client runs one
\* operation; what the volume's own code (package inode) answers is chosen
\* freely, except for Access, which the volume decides per inode.

\* The caller-ids of thread t: dlm.GenerateCallerID() hands out fresh ones.
CallerID(t, i) == <<t, i>>

\* The locks granted to the caller-ids of thread t.
HoldsAny(t) == {g \in granted : g[1][1] = t}

RootDir == CHOOSE k \in Keys : \A j \in Keys : k <= j

\* The volume's tree: the root directory and one directory per other inode in
\* it. A directory lists ".", ".." and its subdirectories.
DirEntries(d) ==
    IF d = RootDir
    THEN <<d, d>> \o [i \in 1..(NumKeys - 1) |-> RootDir + i]
    ELSE <<d, RootDir>>

Volumes ==
    [mounted : {TRUE}, access : [Keys -> {"ok", "ENOENT", "EACCES"}]]

\* VolumeHandle.Access(inode, ..., F_OK) and then (..., W_OK|X_OK and the like).
Access(k) == vol.access[k]

\* What ReadDir may return for directory d: at most max entries from some
\* position on, or an error.
ReadDirResults(d, max) ==
    LET all == DirEntries(d)
    IN  {[entries |-> SubSeq(all, pq[1], pq[2]), err |-> "nil"] :
            pq \in {x \in (1..Len(all)) \X (1..Len(all)) :
                       x[1] <= x[2] /\ x[2] - x[1] < max}}
        \cup {[entries |-> <<>>, err |-> "NotFoundError"]}

\* The next entry from position i on that is not the directory itself.
NextOther(entries, d, i) ==
    IF \E j \in i..Len(entries) : entries[j] # d
    THEN CHOOSE j \in i..Len(entries) :
            entries[j] # d /\ \A m \in i..(j - 1) : entries[m] = d
    ELSE Len(entries) + 1

\* A thread's operation: its name, where it stands, the inodes it works on.
Op(op, at, dir, other) ==
    [op |-> op, at |-> at, dir |-> dir, other |-> other,
     entries |-> <<>>, i |-> 0, err |-> "nil", moved |-> FALSE]

\* The operation has returned to its caller.
Returned(t) == fs[t].at = "returned" /\ pc[t] = "idle"

\* ---------------------------------------------------------------- Rename

\* Lines 1629-1650: the caller-id, the two locks, srcDirLock.WriteLock().
RenameCall(t, src, dst) ==
    /\ fs[t].op = "none"
    /\ CommonLockEnter(t, src, CallerID(t, 0), exclusive, FALSE)
    /\ fs' = [fs EXCEPT ![t] = Op("Rename", "srcLocked", src, dst)]
    /\ UNCHANGED vol

\* retryLock, line 1650: srcDirLock.WriteLock() again.
RenameRetryLock(t) ==
    /\ fs[t].op = "Rename"
    /\ fs[t].at = "retryLock"
    /\ CommonLockEnter(t, fs[t].dir, CallerID(t, 0), exclusive, FALSE)
    /\ fs' = [fs EXCEPT ![t].at = "srcLocked"]
    /\ UNCHANGED vol

\* Lines 1655-1662: Access refuses the source directory; return.
RenameSrcDenied(t) ==
    /\ fs[t].op = "Rename"
    /\ fs[t].at = "srcLocked"
    /\ pc[t] = "idle"
    /\ Access(fs[t].dir) # "ok"
    /\ fs' = [fs EXCEPT ![t].at = "returned", ![t].err = Access(fs[t].dir)]
    /\ UNCHANGED <<localLockMap, tracks, globalsMutex, pc, req, myTrack,
                   wakeUp, ret, granted, mustFollow, vol>>

\* The same place with a blocking dstDirLock.WriteLock().
RenameLockDst(t) ==
    /\ fs[t].op = "Rename"
    /\ fs[t].at = "srcLocked"
    /\ Access(fs[t].dir) = "ok"
    /\ fs[t].dir # fs[t].other
    /\ CommonLockEnter(t, fs[t].other, CallerID(t, 0), exclusive, FALSE)
    /\ fs' = [fs EXCEPT ![t].at = "dstTried"]
    /\ UNCHANGED vol

\* Lines 1666-1667: the directories differ; dstDirLock.TryWriteLock().
RenameTryDst(t) ==
    /\ fs[t].op = "Rename"
    /\ fs[t].at = "srcLocked"
    /\ Access(fs[t].dir) = "ok"
    /\ fs[t].dir # fs[t].other
    /\ CommonLockEnter(t, fs[t].other, CallerID(t, 0), exclusive, TRUE)
    /\ fs' = [fs EXCEPT ![t].at = "dstTried"]
    /\ UNCHANGED vol

\* Lines 1668-1670: TryAgain; srcDirLock.Unlock(); goto retryLock.
RenameRetry(t) ==
    /\ fs[t].op = "Rename"
    /\ fs[t].at = "dstTried"
    /\ ret[t] = "TryAgain"
    /\ UnlockEnter(t, fs[t].dir, CallerID(t, 0))
    /\ fs' = [fs EXCEPT ![t].at = "retryLock"]
    /\ UNCHANGED vol

\* Lines 1677-1686: Access refuses the destination directory;
\* srcDirLock.Unlock(); return.
RenameDstDenied(t) ==
    /\ fs[t].op = "Rename"
    /\ fs[t].at = "dstTried"
    /\ ret[t] = "ok"
    /\ Access(fs[t].other) # "ok"
    /\ UnlockEnter(t, fs[t].dir, CallerID(t, 0))
    /\ fs' = [fs EXCEPT ![t].at = "returned", ![t].err = Access(fs[t].other)]
    /\ UNCHANGED vol

\* The Move made whatever dstDirLock.TryWriteLock() returned.
RenameMoveUnchecked(t) ==
    /\ fs[t].op = "Rename"
    /\ IF fs[t].dir = fs[t].other
       THEN /\ fs[t].at = "srcLocked"
            /\ Access(fs[t].dir) = "ok"
            /\ pc[t] = "idle"
            /\ fs' = [fs EXCEPT ![t].at = "moved", ![t].moved = TRUE]
            /\ UNCHANGED <<localLockMap, tracks, globalsMutex, pc, req, myTrack,
                           wakeUp, ret, granted, mustFollow>>
       ELSE /\ fs[t].at = "dstTried"
            /\ Access(fs[t].other) = "ok"
            /\ UnlockEnter(t, fs[t].other, CallerID(t, 0))
            /\ fs' = [fs EXCEPT ![t].at = "moved", ![t].moved = TRUE]
    /\ UNCHANGED vol

\* Lines 1690-1695: Move; dstDirLock.Unlock() if the directories differ.
RenameMove(t) ==
    /\ fs[t].op = "Rename"
    /\ IF fs[t].dir = fs[t].other
       THEN /\ fs[t].at = "srcLocked"
            /\ Access(fs[t].dir) = "ok"
            /\ pc[t] = "idle"
            /\ fs' = [fs EXCEPT ![t].at = "moved", ![t].moved = TRUE]
            /\ UNCHANGED <<localLockMap, tracks, globalsMutex, pc, req, myTrack,
                           wakeUp, ret, granted, mustFollow>>
       ELSE /\ fs[t].at = "dstTried"
            /\ ret[t] = "ok"
            /\ Access(fs[t].other) = "ok"
            /\ UnlockEnter(t, fs[t].other, CallerID(t, 0))
            /\ fs' = [fs EXCEPT ![t].at = "moved", ![t].moved = TRUE]
    /\ UNCHANGED vol

\* Lines 1696-1699: srcDirLock.Unlock(); return.
RenameUnlockSrc(t) ==
    /\ fs[t].op = "Rename"
    /\ fs[t].at = "moved"
    /\ UnlockEnter(t, fs[t].dir, CallerID(t, 0))
    /\ fs' = [fs EXCEPT ![t].at = "returned"]
    /\ UNCHANGED vol

\* A step of thread t's Rename after its call.
RenameStep(t) ==
    \/ RenameRetryLock(t)
    \/ RenameSrcDenied(t)
    \/ RenameTryDst(t)
    \/ RenameRetry(t)
    \/ RenameDstDenied(t)
    \/ RenameMove(t)
    \/ RenameUnlockSrc(t)

\* ------------------------------------------ ReaddirPlus and ReaddirOnePlus

ReaddirOps == {"ReaddirPlus", "ReaddirOnePlus"}

\* Lines 1807-1811 and 1861-1865: the lock with a caller-id of its own;
\* inodeLock.ReadLock().
ReaddirCall(t, op, dir) ==
    /\ fs[t].op = "none"
    /\ CommonLockEnter(t, dir, CallerID(t, 0), shared, FALSE)
    /\ fs' = [fs EXCEPT ![t] = Op(op, "locked", dir, dir)]
    /\ UNCHANGED vol

\* Lines 1816-1823 and 1870-1877: Access refuses the directory; return.
ReaddirDenied(t) ==
    /\ fs[t].op \in ReaddirOps
    /\ fs[t].at = "locked"
    /\ pc[t] = "idle"
    /\ Access(fs[t].dir) # "ok"
    /\ fs' = [fs EXCEPT ![t].at = "returned", ![t].err = Access(fs[t].dir)]
    /\ UNCHANGED <<localLockMap, tracks, globalsMutex, pc, req, myTrack,
                   wakeUp, ret, granted, mustFollow, vol>>

\* readdirHelper and readdirOneHelper, lines 2736 and 2773: dlm.IsLockHeld.
ReaddirHelper(t) ==
    /\ fs[t].op \in ReaddirOps
    /\ fs[t].at = "locked"
    /\ Access(fs[t].dir) = "ok"
    /\ IsLockHeldEnter(t, fs[t].dir, CallerID(t, 0), ANYLOCK)
    /\ fs' = [fs EXCEPT ![t].at = "checked"]
    /\ UNCHANGED vol

\* Lines 2737-2745 and 2774-2783: the lock is not held, or ReadDir fails: the
\* helper returns the error, and lines 1827-1832 (1881-1890) unlock and
\* return it. Else the entries are there.
ReaddirList(t) ==
    /\ fs[t].op \in ReaddirOps
    /\ fs[t].at = "checked"
    /\ pc[t] = "idle"
    /\ \E res \in ReadDirResults(fs[t].dir,
                    IF fs[t].op = "ReaddirOnePlus" THEN 1 ELSE MaxEntries) :
          IF ret[t] = "notHeld" \/ res.err # "nil"
          THEN /\ UnlockEnter(t, fs[t].dir, CallerID(t, 0))
               /\ fs' = [fs EXCEPT ![t].at = "returned",
                                   ![t].err = IF ret[t] = "notHeld"
                                              THEN "NotFoundError" ELSE res.err]
          ELSE /\ fs' = [fs EXCEPT ![t].at = "types",
                                   ![t].entries = res.entries, ![t].i = 1]
               /\ UNCHANGED <<localLockMap, tracks, globalsMutex, pc, req, myTrack,
                              wakeUp, ret, granted, mustFollow>>
    /\ UNCHANGED vol

\* The helpers' loop, lines 2748-2762 and 2786-2801: the next entry that is not
\* the directory itself gets entryInodeLock.ReadLock() under the directory's
\* caller-id (getTypeHelper's answer is dropped). After the last entry the
\* helper returns and line 1827 (1881) unlocks the directory.
ReaddirTypeNext(t) ==
    /\ fs[t].op \in ReaddirOps
    /\ fs[t].at = "types"
    /\ LET j == NextOther(fs[t].entries, fs[t].dir, fs[t].i)
       IN  IF j > Len(fs[t].entries)
           THEN /\ UnlockEnter(t, fs[t].dir, CallerID(t, 0))
                /\ fs' = [fs EXCEPT ![t].at = "stats", ![t].i = 1]
           ELSE /\ CommonLockEnter(t, fs[t].entries[j], CallerID(t, 0), shared, FALSE)
                /\ fs' = [fs EXCEPT ![t].at = "typeLocked", ![t].i = j]
    /\ UNCHANGED vol

\* Lines 2761 and 2800: entryInodeLock.Unlock().
ReaddirTypeUnlock(t) ==
    /\ fs[t].op \in ReaddirOps
    /\ fs[t].at = "typeLocked"
    /\ UnlockEnter(t, fs[t].entries[fs[t].i], CallerID(t, 0))
    /\ fs' = [fs EXCEPT ![t].at = "types", ![t].i = @ + 1]
    /\ UNCHANGED vol

\* Lines 1836-1844 and 1898-1906: each entry's lock with a caller-id of its
\* own; entryInodeLock.ReadLock().
ReaddirStatLock(t) ==
    /\ fs[t].op \in ReaddirOps
    /\ fs[t].at = "stats"
    /\ fs[t].i <= Len(fs[t].entries)
    /\ CommonLockEnter(t, fs[t].entries[fs[t].i], CallerID(t, fs[t].i), shared, FALSE)
    /\ fs' = [fs EXCEPT ![t].at = "statLocked"]
    /\ UNCHANGED vol

\* getstatHelper, line 313: dlm.IsLockHeld.
ReaddirStatHelper(t) ==
    /\ fs[t].op \in ReaddirOps
    /\ fs[t].at = "statLocked"
    /\ IsLockHeldEnter(t, fs[t].entries[fs[t].i], CallerID(t, fs[t].i), ANYLOCK)
    /\ fs' = [fs EXCEPT ![t].at = "statChecked"]
    /\ UNCHANGED vol

\* Lines 1848-1853 and 1910-1915: entryInodeLock.Unlock(); return the error
\* getstatHelper had, or go on with the next entry.
ReaddirStatUnlock(t) ==
    /\ fs[t].op \in ReaddirOps
    /\ fs[t].at = "statChecked"
    /\ UnlockEnter(t, fs[t].entries[fs[t].i], CallerID(t, fs[t].i))
    /\ \E getstat \in {"nil", "NotFoundError"} :
          IF ret[t] = "held" /\ getstat = "nil"
          THEN fs' = [fs EXCEPT ![t].at = "stats", ![t].i = @ + 1]
          ELSE fs' = [fs EXCEPT ![t].at = "returned", ![t].err = "NotFoundError"]
    /\ UNCHANGED vol

\* Lines 1856-1857 and 1918-1919: all entries done; return.
ReaddirReturn(t) ==
    /\ fs[t].op \in ReaddirOps
    /\ fs[t].at = "stats"
    /\ pc[t] = "idle"
    /\ fs[t].i > Len(fs[t].entries)
    /\ fs' = [fs EXCEPT ![t].at = "returned"]
    /\ UNCHANGED <<localLockMap, tracks, globalsMutex, pc, req, myTrack,
                   wakeUp, ret, granted, mustFollow, vol>>

ReaddirStep(t) ==
    \/ ReaddirDenied(t)
    \/ ReaddirHelper(t)
    \/ ReaddirList(t)
    \/ ReaddirTypeNext(t)
    \/ ReaddirTypeUnlock(t)
    \/ ReaddirStatLock(t)
    \/ ReaddirStatHelper(t)
    \/ ReaddirStatUnlock(t)
    \/ ReaddirReturn(t)

\* --------------------- Create, Mkdir, Symlink, Flock, Setstat and SetXAttr
\* One lock, taken for the whole operation, and its deferred Unlock.

OneLockOps == {"Create", "Mkdir", "Symlink", "Flock", "Setstat", "SetXAttr"}

\* Flock takes inodeLock.ReadLock(), the others WriteLock().
LockModeOf(op) == IF op = "Flock" THEN shared ELSE exclusive

\* Create lines 108-124 (Mkdir 1562-1570, Symlink 2262-2270, Flock 209-217,
\* Setstat 2049-2057, SetXAttr 2181-2189): the lock; defer Unlock().
OneLockCall(t, op, inodeNumber) ==
    /\ fs[t].op = "none"
    /\ CommonLockEnter(t, inodeNumber, CallerID(t, 0), LockModeOf(op), FALSE)
    /\ fs' = [fs EXCEPT ![t] = Op(op, "locked", inodeNumber, inodeNumber)]
    /\ UNCHANGED vol

\* Any return after the defer, with or without error: the deferred Unlock().
OneLockReturn(t) ==
    /\ fs[t].op \in OneLockOps
    /\ fs[t].at = "locked"
    /\ UnlockEnter(t, fs[t].dir, CallerID(t, 0))
    /\ fs' = [fs EXCEPT ![t].at = "returned", ![t].err =
                 IF Access(fs[t].dir) = "ok" THEN "nil" ELSE Access(fs[t].dir)]
    /\ UNCHANGED vol

\* ----------------------------------------------------- Link, Unlink, Rmdir
\* The directory's lock and then a second inode's, both under one caller-id,
\* each with its deferred Unlock().

TwoLockOps == {"Link", "Unlink", "Rmdir"}

\* Link lines 493-508 (Unlink 2303-2312, Rmdir 1972-1981): WriteLock() on the
\* directory; defer Unlock().
TwoLockCall(t, op, dir, target) ==
    /\ fs[t].op = "none"
    /\ CommonLockEnter(t, dir, CallerID(t, 0), exclusive, FALSE)
    /\ fs' = [fs EXCEPT ![t] = Op(op, "dirLocked", dir, target)]
    /\ UNCHANGED vol

\* Unlink lines 2314-2326 (Rmdir 1983-1995): Access refuses the directory, or
\* Lookup finds no entry: return, which runs the deferred Unlock().
TwoLockEarlyReturn(t) ==
    /\ fs[t].op \in {"Unlink", "Rmdir"}
    /\ fs[t].at = "dirLocked"
    /\ UnlockEnter(t, fs[t].dir, CallerID(t, 0))
    /\ fs' = [fs EXCEPT ![t].at = "returned", ![t].err =
                 IF Access(fs[t].dir) = "ok" THEN "NotFoundError" ELSE Access(fs[t].dir)]
    /\ UNCHANGED vol

\* Link line 510: targetInodeLock.WriteLock(). Unlink lines 2323-2336 (Rmdir
\* 1992-2005): the inode Lookup found for the basename; its WriteLock().
TwoLockSecond(t) ==
    /\ fs[t].op \in TwoLockOps
    /\ fs[t].at = "dirLocked"
    /\ fs[t].op = "Link" \/ Access(fs[t].dir) = "ok"
    /\ fs[t].op = "Link" \/ CallerInListOfOwners(DirEntries(fs[t].dir), fs[t].other)
    /\ CommonLockEnter(t, fs[t].other, CallerID(t, 0), exclusive, FALSE)
    /\ fs' = [fs EXCEPT ![t].at = "bothLocked"]
    /\ UNCHANGED vol

\* Any return after the second defer: the deferred Unlock() of the second lock
\* runs first.
TwoLockUnlockSecond(t) ==
    /\ fs[t].op \in TwoLockOps
    /\ fs[t].at = "bothLocked"
    /\ UnlockEnter(t, fs[t].other, CallerID(t, 0))
    /\ fs' = [fs EXCEPT ![t].at = "dirLocked again"]
    /\ UNCHANGED vol

\* Then the deferred Unlock() of the directory.
TwoLockUnlockDir(t) ==
    /\ fs[t].op \in TwoLockOps
    /\ fs[t].at = "dirLocked again"
    /\ UnlockEnter(t, fs[t].dir, CallerID(t, 0))
    /\ fs' = [fs EXCEPT ![t].at = "returned"]
    /\ UNCHANGED vol

\* --------------------------------------------------- threads running them

\* The threads that call into the filesystem.
Clients == 1..NumClients

FsInit ==
    /\ LlmInit
    /\ vol \in Volumes

FsCall(t) ==
    \/ \E src \in Keys, dst \in Keys : RenameCall(t, src, dst)
    \/ \E op \in ReaddirOps, dir \in Keys : ReaddirCall(t, op, dir)
    \/ \E op \in OneLockOps, inodeNumber \in Keys : OneLockCall(t, op, inodeNumber)
    \/ \E op \in TwoLockOps, dir \in Keys, target \in Keys : TwoLockCall(t, op, dir, target)

FsNext ==
    /\ ~Aborted
    /\ \E t \in Clients :
          \/ FsCall(t)
          \/ RenameStep(t)
          \/ ReaddirStep(t)
          \/ OneLockReturn(t)
          \/ TwoLockEarlyReturn(t)
          \/ TwoLockSecond(t)
          \/ TwoLockUnlockSecond(t)
          \/ TwoLockUnlockDir(t)
          \/ LockStep(t)
          \/ IsLockHeldAnswer(t)

FsSpec == FsInit /\ [][FsNext]_vars

\* Two renames between the root and its first subdirectory, one each way,
\* every step of each of them scheduled fairly.
Renamers == 1..2

RenameFrom(t) == IF t = 1 THEN RootDir ELSE RootDir + 1
RenameTo(t) == IF t = 1 THEN RootDir + 1 ELSE RootDir

\* All that thread t does in its rename.
RenameThread(t) ==
    \/ RenameCall(t, RenameFrom(t), RenameTo(t))
    \/ RenameStep(t)
    \/ LockStep(t)

RenameNext ==
    /\ ~Aborted
    /\ \E t \in Renamers : RenameThread(t)

\* A thread with a step to take takes one, even if the other thread's steps
\* disable it again and again (it waits for the global mutex then).
RenameSpec ==
    /\ FsInit
    /\ [][RenameNext]_vars
    /\ \A t \in Renamers : SF_vars(~Aborted /\ RenameThread(t))

\* ------------------------------------------------------------ properties

\* No thread is between the lookup of k's track and the end of its work on it.
Quiescent(k) ==
    \A t \in Threads :
        pc[t] \in {"cl_track", "ul_track", "ih_track"} => req[t].LockID # k

\* The callers granted k and not yet released.
Holders(k) == {g[1] : g \in {h \in granted : h[2] = k}}

\* The caller-ids in a track's owner list.
Listed(track) == {track.listOfOwners[i] : i \in 1..Len(track.listOfOwners)}

\* C1: while a caller holds a lock in Write mode no other caller holds it in
\* any mode, and the track is Exclusive with exactly that one caller as owner.
MutualExclusion ==
    \A g \in granted :
        g[3] = exclusive =>
            /\ \A h \in granted : h[2] = g[2] => h = g
            /\ localLockMap[g[2]] # NoTrack
            /\ tracks[localLockMap[g[2]]].state = exclusive
            /\ tracks[localLockMap[g[2]]].owners = 1
            /\ Listed(tracks[localLockMap[g[2]]]) = {g[1]}

\* C2: the owner list of a track holds exactly the callers granted and not yet
\* released, its length is the owner counter, and it is empty when the track
\* is Stale.
OwnersExact ==
    \A k \in Keys :
        (Quiescent(k) /\ localLockMap[k] # NoTrack) =>
            LET track == tracks[localLockMap[k]]
            IN  /\ Listed(track) = Holders(k)
                /\ Len(track.listOfOwners) = track.owners
                /\ (track.state = stale => track.listOfOwners = <<>>)

\* Whether caller c holds lock k in the mode lockHeldType asks about.
HeldBy(k, c, lockHeldType) ==
    \E g \in granted :
        /\ g[1] = c
        /\ g[2] = k
        /\ \/ lockHeldType = ANYLOCK
           \/ lockHeldType = READLOCK /\ g[3] = shared
           \/ lockHeldType = WRITELOCK /\ g[3] = exclusive

\* C3: isLockHeld answers true exactly when the caller it asks about holds the
\* lock in the mode it asks about; once that caller released, it answers false.
IsLockHeldTruthful ==
    [][\A t \in Threads :
          (pc[t] = "ih_track" /\ pc'[t] = "idle") =>
              ((ret'[t] = "held") <=>
                  HeldBy(req[t].LockID, req[t].LockCallerID, req[t].lockHeldType))]_vars

\* The threads whose request for k waits in the queue or was granted and has
\* not woken up yet.
Waiting(k) == {t \in Threads : pc[t] = "cl_wait" /\ req[t].LockID = k}

\* C4: whenever no thread is at work on lock k, the map has a track for k
\* exactly when k has an owner or a waiter; the track the map has then counts
\* at least one owner or waiter.
TrackLifetime ==
    \A k \in Keys :
        Quiescent(k) =>
            /\ (localLockMap[k] # NoTrack) <=> (Holders(k) # {} \/ Waiting(k) # {})
            /\ (localLockMap[k] # NoTrack) =>
                  tracks[localLockMap[k]].owners + tracks[localLockMap[k]].waiters > 0

\* A Try acquire failed and left alone the track that a holder and a waiter
\* keep in the map.
TrackLifetimeWitness ==
    \E t \in Threads, k \in Keys :
        /\ ret[t] = "TryAgain"
        /\ Quiescent(k)
        /\ localLockMap[k] # NoTrack
        /\ Holders(k) # {}
        /\ \E u \in Waiting(k) : ~wakeUp[u]

\* C5: a blocking reader that arrived at a shared lock behind queued writers
\* stays in the queue, not granted, until each of those writers was granted
\* the lock and released it.
WriterPreference ==
    \A t \in Threads :
        mustFollow[t] # {} => (pc[t] = "cl_wait" /\ ~wakeUp[t])

\* A reader waits behind a queued writer while another reader holds the lock.
WriterPreferenceWitness ==
    \E t \in Threads :
        /\ mustFollow[t] # {}
        /\ req[t].requestedState = shared
        /\ pc[t] = "cl_wait"
        /\ tracks[myTrack[t]].state = shared
        /\ tracks[myTrack[t]].owners > 0

TryAgainExactly ==
    [][\A t \in Threads :
          (pc[t] = "cl_track" /\ pc'[t] # "cl_track" /\ req[t].try) =>
              LET state == tracks[myTrack[t]].state
                  want == req[t].requestedState
              IN  /\ (ret'[t] = "TryAgain") <=>
                        \/ (want = exclusive /\ state # stale)
                        \/ (want = shared /\ state = exclusive)
                  /\ (ret'[t] = "TryAgain") =>
                        /\ localLockMap' = localLockMap
                        /\ localLockMap[req[t].LockID] = myTrack[t]
                        /\ tracks'[myTrack[t]] = tracks[myTrack[t]]
                        /\ granted' = granted]_vars

\* A Try for Write failed on a lock held Shared.
TryAgainWitness ==
    \E t \in Threads, k \in Keys :
        /\ ret[t] = "TryAgain"
        /\ pc[t] = "idle"
        /\ localLockMap[k] # NoTrack
        /\ tracks[localLockMap[k]].state = shared

\* C8: a Try acquire never waits: no thread sits in the queue of a lock, on its
\* request's condition variable, with a Try request.
TryNeverWaits ==
    \A t \in Threads : pc[t] = "cl_wait" => ~req[t].try

\* C9: when a filesystem operation has returned, with or without an error,
\* none of the caller-ids it used holds a lock.
ReleasesEveryLock ==
    \A t \in Clients : Returned(t) => HoldsAny(t) = {}

\* The operations that defer their unlocks hold nothing once they returned.
DeferredUnlocksReleaseEveryLock ==
    \A t \in Clients :
        (Returned(t) /\ fs[t].op \in OneLockOps \cup TwoLockOps) => HoldsAny(t) = {}

\* Both renames have come to their end.
RenamesReturned == \A t \in Renamers : Returned(t)

\* Access lets both renames into both directories.
AccessGranted == \A k \in Keys : Access(k) = "ok"

MoveHoldsBothDirectories ==
    [][\A t \in Clients :
          (fs[t].op = "Rename" /\ ~fs[t].moved /\ fs'[t].moved) =>
              /\ <<CallerID(t, 0), fs[t].dir, exclusive>> \in granted
              /\ <<CallerID(t, 0), fs[t].other, exclusive>> \in granted
              /\ \A g \in granted :
                    g[2] \in {fs[t].dir, fs[t].other} => g[1] = CallerID(t, 0)]_vars

\* A rename between two directories has made its Move while the other client
\* waits for a lock.
MoveWitness ==
    \E t \in Clients, u \in Clients :
        /\ fs[t].op = "Rename"
        /\ fs[t].moved
        /\ fs[t].dir # fs[t].other
        /\ u # t
        /\ pc[u] = "cl_wait"
        /\ ~wakeUp[u]

\* ------------------------------------ Create, Mkdir and Symlink in detail
\* The volume keeps the inodes made by CreateFile, CreateDir and
\* CreateSymlink and each directory's entries by basename.

BaseNames == {"f", "g"}

\* The inode numbers the volume hands out to new inodes, two of them.
NewInodes == (NumKeys + 1)..(NumKeys + 2)

NoInode == CHOOSE n \in 0..NumKeys : n \notin Keys

\* Volumes for the operations that create inodes: no new inode yet and no
\* entry under any of the basenames.
CreateVolumes ==
    [mounted : {TRUE}, access : [Keys -> {"ok", "ENOENT", "EACCES"}],
     inodes : {[n \in NewInodes |-> "free"]},
     dirEntries : {[dn \in Keys \X BaseNames |-> NoInode]}]

\* The number the volume gives its next inode.
NextInode ==
    CHOOSE n \in NewInodes :
        vol.inodes[n] = "free" /\ \A m \in NewInodes : vol.inodes[m] = "free" => n <= m

\* VolumeHandle.CreateFile, CreateDir, CreateSymlink: a new inode of the type.
CreateInode(v, n, type) == [v EXCEPT !.inodes[n] = type]

\* VolumeHandle.Destroy(inodeNumber).
Destroy(v, n) == [v EXCEPT !.inodes[n] = "destroyed"]

\* VolumeHandle.Link(dir, basename, target): Exists when the directory has an
\* entry under the basename.
LinkFails(v, dir, basename) == v.dirEntries[<<dir, basename>>] # NoInode

Link(v, dir, basename, n) == [v EXCEPT !.dirEntries[<<dir, basename>>] = n]

\* The inodes that some directory entry refers to.
Linked(v) == {v.dirEntries[dn] : dn \in DOMAIN v.dirEntries} \ {NoInode}

CreateOps == {"Create", "Mkdir", "Symlink"}

TypeOf(op) ==
    IF op = "Create" THEN "File" ELSE IF op = "Mkdir" THEN "Dir" ELSE "Symlink"

\* The operation of a thread that creates an inode: the directory, the
\* basename, the new inode.
CreateOp(op, dir, basename, n) ==
    [op |-> op, at |-> "created", dir |-> dir, other |-> n, basename |-> basename,
     entries |-> <<>>, i |-> 0, err |-> "nil", moved |-> FALSE]

\* Create lines 96-106 (Mkdir 1549-1560, Symlink 2245-2260): the basename is
\* valid; CreateFile (CreateDir, CreateSymlink) makes the new inode.
CreateCall(t, op, dir, basename) ==
    /\ fs[t].op = "none"
    /\ pc[t] = "idle"
    /\ \E n \in NewInodes : vol.inodes[n] = "free"
    /\ vol' = CreateInode(vol, NextInode, TypeOf(op))
    /\ fs' = [fs EXCEPT ![t] = CreateOp(op, dir, basename, NextInode)]
    /\ UNCHANGED <<localLockMap, tracks, globalsMutex, pc, req, myTrack,
                   wakeUp, ret, granted, mustFollow>>

\* Create lines 108-115: initInodeLock fails; Destroy the new inode; return.
\* Mkdir lines 1562-1565 and Symlink lines 2262-2265: return.
CreateLockInitFails(t) ==
    /\ fs[t].op \in CreateOps
    /\ fs[t].at = "created"
    /\ vol' = IF fs[t].op = "Create" THEN Destroy(vol, fs[t].other) ELSE vol
    /\ fs' = [fs EXCEPT ![t].at = "returned", ![t].err = "lockError"]
    /\ UNCHANGED <<localLockMap, tracks, globalsMutex, pc, req, myTrack,
                   wakeUp, ret, granted, mustFollow>>

\* Create lines 116-124 (Mkdir 1566-1570, Symlink 2266-2270):
\* inodeLock.WriteLock() on the directory; defer inodeLock.Unlock().
CreateLock(t) ==
    /\ fs[t].op \in CreateOps
    /\ fs[t].at = "created"
    /\ CommonLockEnter(t, fs[t].dir, CallerID(t, 0), exclusive, FALSE)
    /\ fs' = [fs EXCEPT ![t].at = "locking"]
    /\ UNCHANGED vol

\* The same lines without the Destroy calls on the error returns.
CreateLinkNoDestroy(t) ==
    /\ fs[t].op \in CreateOps
    /\ fs[t].at = "locking"
    /\ pc[t] = "idle"
    /\ IF Access(fs[t].dir) # "ok"
       THEN /\ vol' = vol
            /\ fs' = [fs EXCEPT ![t].at = "done", ![t].err = Access(fs[t].dir)]
       ELSE IF LinkFails(vol, fs[t].dir, fs[t].basename)
       THEN /\ vol' = vol
            /\ fs' = [fs EXCEPT ![t].at = "done", ![t].err = "FileExistsError"]
       ELSE /\ vol' = Link(vol, fs[t].dir, fs[t].basename, fs[t].other)
            /\ fs' = [fs EXCEPT ![t].at = "done"]
    /\ UNCHANGED <<localLockMap, tracks, globalsMutex, pc, req, myTrack,
                   wakeUp, ret, granted, mustFollow>>

\* Create lines 126-151 (Mkdir 1572-1598, Symlink 2272-2299), with the lock
\* held: Access F_OK and W_OK|X_OK on the directory, each refusal with Destroy
\* of the new inode; Link, and Destroy of the new inode when Link fails.
CreateLink(t) ==
    /\ fs[t].op \in CreateOps
    /\ fs[t].at = "locking"
    /\ pc[t] = "idle"
    /\ IF Access(fs[t].dir) # "ok"
       THEN /\ vol' = Destroy(vol, fs[t].other)
            /\ fs' = [fs EXCEPT ![t].at = "done", ![t].err = Access(fs[t].dir)]
       ELSE IF LinkFails(vol, fs[t].dir, fs[t].basename)
       THEN /\ vol' = Destroy(vol, fs[t].other)
            /\ fs' = [fs EXCEPT ![t].at = "done", ![t].err = "FileExistsError"]
       ELSE /\ vol' = Link(vol, fs[t].dir, fs[t].basename, fs[t].other)
            /\ fs' = [fs EXCEPT ![t].at = "done"]
    /\ UNCHANGED <<localLockMap, tracks, globalsMutex, pc, req, myTrack,
                   wakeUp, ret, granted, mustFollow>>

\* The return: the deferred inodeLock.Unlock().
CreateUnlock(t) ==
    /\ fs[t].op \in CreateOps
    /\ fs[t].at = "done"
    /\ UnlockEnter(t, fs[t].dir, CallerID(t, 0))
    /\ fs' = [fs EXCEPT ![t].at = "returned"]
    /\ UNCHANGED vol

\* Two threads, each creating one inode.
Creators == 1..2

CreateInit ==
    /\ LlmInit
    /\ vol \in CreateVolumes

CreateNext ==
    /\ ~Aborted
    /\ \E t \in Creators :
          \/ \E op \in CreateOps, dir \in Keys, basename \in BaseNames :
                CreateCall(t, op, dir, basename)
          \/ CreateLockInitFails(t)
          \/ CreateLock(t)
          \/ CreateLink(t)
          \/ CreateUnlock(t)
          \/ LockStep(t)

CreateSpec == CreateInit /\ [][CreateNext]_vars

\* Threads t and u have both returned from Create of one basename in one
\* directory that grants access, each after it had taken the directory's lock.
CreateRace(t, u) ==
    /\ t # u
    /\ fs[t].op = "Create" /\ fs[u].op = "Create"
    /\ Returned(t) /\ Returned(u)
    /\ fs[t].dir = fs[u].dir /\ fs[t].basename = fs[u].basename
    /\ Access(fs[t].dir) = "ok"
    /\ fs[t].err # "lockError" /\ fs[u].err # "lockError"

\* C12: of two concurrent Create calls for one basename in one directory
\* exactly one succeeds, and its inode is the one linked under the name; the
\* other returns the Exists error of Link and its new inode is destroyed; after
\* both have returned every inode created is linked.
CreateRaceOneWinner ==
    \A t \in Creators, u \in Creators :
        CreateRace(t, u) =>
            /\ \E w \in {t, u} :
                  LET l == CHOOSE x \in {t, u} : x # w
                  IN  /\ fs[w].err = "nil"
                      /\ vol.dirEntries[<<fs[w].dir, fs[w].basename>>] = fs[w].other
                      /\ fs[l].err = "FileExistsError"
                      /\ vol.inodes[fs[l].other] = "destroyed"
            /\ \A n \in NewInodes :
                  vol.inodes[n] \notin {"free", "destroyed"} => n \in Linked(vol)

CreateRaceWitness ==
    \E t \in Creators, u \in Creators :
        CreateRace(t, u) /\ fs[u].err = "FileExistsError" /\ fs[u].other < fs[t].other

\* C13: when Create, Mkdir or Symlink returns an error after it has created
\* its inode, that inode is destroyed and no directory has an entry for it.
CreateFailureDestroysInode ==
    \A t \in Creators :
        (fs[t].op \in CreateOps /\ Returned(t) /\ fs[t].err # "nil") =>
            /\ vol.inodes[fs[t].other] = "destroyed"
            /\ fs[t].other \notin Linked(vol)

\* ------------------------------------------------------------ resolvePath
\* The volume of a walk: the root directory with a chain of symlinks in it.
\* Link i of the chain is a symlink to link i - 1; link 0, the chain's end, is a
\* file, a directory or missing. The root's ".." is the root, the end's ".."
\* (a directory) is the root.

\* followsRemaining := MaxSymlinks
MaxSymlinks == 40

ChainLengths == {0, 1, MaxSymlinks, MaxSymlinks + 1}

\* How the symlinks of the chain name their target: by a relative path, by an
\* absolute path, by a relative path through "..", or each one itself.
TargetKinds == {"rel", "abs", "up", "self"}

ResolveVolumes ==
    [mounted : {TRUE}, access : {[k \in Keys |-> "ok"]},
     chain : ChainLengths, end : {"FileType", "DirType", "none"},
     targets : TargetKinds]

DotDot == <<"..", 0>>
Dot == <<".", 0>>
Name(i) == <<"a", i>>

\* The inode numbers: the root's, and from the next one on the chain's.
Chain(i) == RootDir + 1 + i

\* mS.makeLockID: the lock of an inode. The inodes of the chain share one; a
\* walk holds at most one of them at a time.
LockIDOf(inodeNumber) == IF inodeNumber = RootDir THEN RootDir ELSE RootDir + 1

\* VolumeHandle.Lookup(dirInodeNumber, segment); NoInode for NotFound.
Lookup(dirInodeNumber, segment) ==
    IF segment = DotDot THEN RootDir
    ELSE IF dirInodeNumber # RootDir \/ segment = Dot THEN NoInode
    ELSE IF segment[2] = 0
    THEN (IF vol.end = "none" THEN NoInode ELSE Chain(0))
    ELSE IF segment[2] <= vol.chain THEN Chain(segment[2]) ELSE NoInode

\* VolumeHandle.GetType(inodeNumber)
GetType(inodeNumber) ==
    IF inodeNumber = RootDir THEN "DirType"
    ELSE IF inodeNumber = Chain(0) THEN vol.end
    ELSE "SymlinkType"

\* mS.GetSymlink(inodeNumber): strings.HasPrefix(target, "/") and
\* revSplitPath(target).
GetSymlink(inodeNumber) ==
    LET i == inodeNumber - Chain(0)
    IN  CASE vol.targets = "rel" -> [abs |-> FALSE, segments |-> <<Name(i - 1)>>]
          [] vol.targets = "abs" -> [abs |-> TRUE, segments |-> <<Name(i - 1)>>]
          [] vol.targets = "up" -> [abs |-> FALSE, segments |-> <<Name(i - 1), DotDot>>]
          [] OTHER -> [abs |-> FALSE, segments |-> <<Name(i)>>]

\* revSplitPath(fullpath) of the paths "/", "/a", "/..", "/a/..", "." where a
\* is the name of the chain's first symlink.
ResolvePaths ==
    {<<>>, <<Name(vol.chain)>>, <<DotDot>>, <<DotDot, Name(vol.chain)>>, <<Dot>>}

ResolveModes == {READLOCK, WRITELOCK}

\* ensureReadLock and ensureWriteLock ask for a shared or an exclusive lock.
StateOf(mode) == IF mode = READLOCK THEN shared ELSE exclusive

\* The locals of resolvePath. A lock variable is TRUE when it is not nil; got
\* is what getLock has returned.
ResolveOp(fullpath, mode) ==
    [op |-> "resolvePath", at |-> "ensure", mode |-> mode, want |-> "dir",
     fullpath |-> fullpath, pathSegments |-> fullpath,
     followsRemaining |-> MaxSymlinks,
     cursorInodeNumber |-> NoInode, cursorInodeLock |-> FALSE,
     dirInodeNumber |-> RootDir, dirInodeLock |-> FALSE,
     target |-> <<>>, got |-> FALSE,
     inodeNumber |-> NoInode, inodeType |-> "none", inodeLock |-> FALSE,
     err |-> "nil"]

\* Lines 2477-2494: revSplitPath(fullpath); followsRemaining; getLock on the
\* root directory, which first asks whether the caller-id holds the lock.
ResolveCall(t, fullpath, mode) ==
    /\ fs[t].op = "none"
    /\ IsLockHeldEnter(t, RootDir, CallerID(t, 0), mode)
    /\ fs' = [fs EXCEPT ![t] = ResolveOp(fullpath, mode)]
    /\ UNCHANGED vol

\* getLock (ensureReadLock, ensureWriteLock): a lock the caller-id holds is
\* not taken again and nil is returned for it; else ReadLock() or WriteLock().
ResolveEnsure(t) ==
    /\ fs[t].op = "resolvePath"
    /\ fs[t].at = "ensure"
    /\ pc[t] = "idle"
    /\ LET k == IF fs[t].want = "dir" THEN LockIDOf(fs[t].dirInodeNumber)
                ELSE LockIDOf(fs[t].cursorInodeNumber)
       IN  IF ret[t] = "held"
           THEN /\ fs' = [fs EXCEPT ![t].at = "got", ![t].got = FALSE]
                /\ UNCHANGED <<localLockMap, tracks, globalsMutex, pc, req, myTrack,
                               wakeUp, ret, granted, mustFollow>>
           ELSE /\ CommonLockEnter(t, k, CallerID(t, 0), StateOf(fs[t].mode), FALSE)
                /\ fs' = [fs EXCEPT ![t].at = "got", ![t].got = TRUE]
    /\ UNCHANGED vol

\* The walk with the limit tested after the decrement.
ResolveGotLimitOff(t) ==
    /\ fs[t].op = "resolvePath"
    /\ fs[t].at = "got"
    /\ pc[t] = "idle"
    /\ LET f == fs[t]
           type == GetType(f.cursorInodeNumber)
       IN  fs' = [fs EXCEPT ![t] =
             IF f.want = "dir"
             THEN [f EXCEPT !.dirInodeLock = f.got,
                            !.pathSegments = @ \o f.target, !.target = <<>>,
                            !.at = "loop"]
             ELSE IF type = "SymlinkType"
             THEN (IF f.followsRemaining - 1 = 0
                   THEN [f EXCEPT !.cursorInodeLock = f.got,
                                  !.err = "TooManySymlinksError", !.at = "defer"]
                   ELSE [f EXCEPT !.cursorInodeLock = f.got,
                                  !.followsRemaining = @ - 1, !.at = "symlink"])
             ELSE IF f.pathSegments = <<>>
             THEN [f EXCEPT !.inodeNumber = f.cursorInodeNumber, !.inodeType = type,
                            !.inodeLock = f.got, !.cursorInodeLock = FALSE,
                            !.at = "defer"]
             ELSE IF type = "FileType"
             THEN [f EXCEPT !.cursorInodeLock = f.got,
                            !.err = "NotDirError", !.at = "defer"]
             ELSE [f EXCEPT !.cursorInodeLock = f.got,
                            !.at = "directory"]]
    /\ UNCHANGED <<localLockMap, tracks, globalsMutex, pc, req, myTrack,
                   wakeUp, ret, granted, mustFollow, vol>>

\* The lock is there. Line 2494 and lines 2565-2568: it is the directory's;
\* lines 2570-2571: the symlink's segments are pushed. Lines 2527-2545 and
\* 2572-2591: it is the cursor's; GetType; a symlink is followed unless
\* followsRemaining is 0; the last segment's inode is returned with its lock;
\* a file with segments left is NotDirError; a directory is walked into.
ResolveGot(t) ==
    /\ fs[t].op = "resolvePath"
    /\ fs[t].at = "got"
    /\ pc[t] = "idle"
    /\ LET f == fs[t]
           type == GetType(f.cursorInodeNumber)
       IN  fs' = [fs EXCEPT ![t] =
             IF f.want = "dir"
             THEN [f EXCEPT !.dirInodeLock = f.got,
                            !.pathSegments = @ \o f.target, !.target = <<>>,
                            !.at = "loop"]
             ELSE IF type = "SymlinkType"
             THEN (IF f.followsRemaining = 0
                   THEN [f EXCEPT !.cursorInodeLock = f.got,
                                  !.err = "TooManySymlinksError", !.at = "defer"]
                   ELSE [f EXCEPT !.cursorInodeLock = f.got,
                                  !.followsRemaining = @ - 1, !.at = "symlink"])
             ELSE IF f.pathSegments = <<>>
             THEN [f EXCEPT !.inodeNumber = f.cursorInodeNumber, !.inodeType = type,
                            !.inodeLock = f.got, !.cursorInodeLock = FALSE,
                            !.at = "defer"]
             ELSE IF type = "FileType"
             THEN [f EXCEPT !.cursorInodeLock = f.got,
                            !.err = "NotDirError", !.at = "defer"]
             ELSE [f EXCEPT !.cursorInodeLock = f.got,
                            !.at = "directory"]]
    /\ UNCHANGED <<localLockMap, tracks, globalsMutex, pc, req, myTrack,
                   wakeUp, ret, granted, mustFollow, vol>>

\* Lines 2509-2527: the path "/" when no segment is left (lines 2600-2608);
\* the next segment; "." is skipped; Lookup, whose error is returned; getLock
\* on what Lookup found.
ResolveLoop(t) ==
    /\ fs[t].op = "resolvePath"
    /\ fs[t].at = "loop"
    /\ pc[t] = "idle"
    /\ LET f == fs[t]
           n == Len(f.pathSegments)
           segment == f.pathSegments[n]
           rest == SubSeq(f.pathSegments, 1, n - 1)
       IN  IF n = 0
           THEN /\ fs' = [fs EXCEPT ![t] =
                     [f EXCEPT !.inodeNumber = f.dirInodeNumber, !.inodeType = "DirType",
                               !.inodeLock = f.dirInodeLock, !.dirInodeLock = FALSE,
                               !.at = "defer"]]
                /\ UNCHANGED <<localLockMap, tracks, globalsMutex, pc, req, myTrack,
                   wakeUp, ret, granted, mustFollow>>
           ELSE IF segment = Dot
           THEN /\ fs' = [fs EXCEPT ![t].pathSegments = rest]
                /\ UNCHANGED <<localLockMap, tracks, globalsMutex, pc, req, myTrack,
                   wakeUp, ret, granted, mustFollow>>
           ELSE IF Lookup(f.dirInodeNumber, segment) = NoInode
           THEN /\ fs' = [fs EXCEPT ![t] =
                     [f EXCEPT !.pathSegments = rest, !.cursorInodeNumber = NoInode,
                               !.err = "NotFoundError", !.at = "defer"]]
                /\ UNCHANGED <<localLockMap, tracks, globalsMutex, pc, req, myTrack,
                   wakeUp, ret, granted, mustFollow>>
           ELSE /\ IsLockHeldEnter(t, LockIDOf(Lookup(f.dirInodeNumber, segment)),
                                   CallerID(t, 0), f.mode)
                /\ fs' = [fs EXCEPT ![t] =
                     [f EXCEPT !.pathSegments = rest,
                               !.cursorInodeNumber = Lookup(f.dirInodeNumber, segment),
                               !.want = "cursor", !.at = "ensure"]]
    /\ UNCHANGED vol

\* Lines 2546-2554 and 2570-2571: GetSymlink; cursorInodeLock.Unlock() unless
\* nil; a relative target's segments are pushed.
ResolveSymlink(t) ==
    /\ fs[t].op = "resolvePath"
    /\ fs[t].at = "symlink"
    /\ LET f == fs[t]
           target == GetSymlink(f.cursorInodeNumber)
       IN  /\ IF f.cursorInodeLock
              THEN UnlockEnter(t, LockIDOf(f.cursorInodeNumber), CallerID(t, 0))
              ELSE pc[t] = "idle" /\ UNCHANGED <<localLockMap, tracks, globalsMutex, pc, req, myTrack,
                   wakeUp, ret, granted, mustFollow>>
           /\ fs' = [fs EXCEPT ![t] =
                IF target.abs
                THEN [f EXCEPT !.cursorInodeLock = FALSE, !.target = target.segments,
                               !.at = "absolute"]
                ELSE [f EXCEPT !.cursorInodeLock = FALSE,
                               !.pathSegments = @ \o target.segments, !.at = "loop"]]
    /\ UNCHANGED vol

\* Lines 2556-2564: an absolute target; dirInodeLock.Unlock() unless nil; the
\* walk starts over at the root.
ResolveAbsolute(t) ==
    /\ fs[t].op = "resolvePath"
    /\ fs[t].at = "absolute"
    /\ IF fs[t].dirInodeLock
       THEN UnlockEnter(t, LockIDOf(fs[t].dirInodeNumber), CallerID(t, 0))
       ELSE pc[t] = "idle" /\ UNCHANGED <<localLockMap, tracks, globalsMutex, pc, req, myTrack,
                   wakeUp, ret, granted, mustFollow>>
    /\ fs' = [fs EXCEPT ![t].dirInodeLock = FALSE, ![t].dirInodeNumber = RootDir,
                        ![t].at = "reseat"]
    /\ UNCHANGED vol

\* Line 2565: getLock on the root directory.
ResolveReseat(t) ==
    /\ fs[t].op = "resolvePath"
    /\ fs[t].at = "reseat"
    /\ IsLockHeldEnter(t, RootDir, CallerID(t, 0), fs[t].mode)
    /\ fs' = [fs EXCEPT ![t].want = "dir", ![t].at = "ensure"]
    /\ UNCHANGED vol

\* Lines 2589-2597: a directory with segments left; dirInodeLock.Unlock()
\* unless nil; the cursor and its lock become the directory and its lock.
ResolveDirectory(t) ==
    /\ fs[t].op = "resolvePath"
    /\ fs[t].at = "directory"
    /\ IF fs[t].dirInodeLock
       THEN UnlockEnter(t, LockIDOf(fs[t].dirInodeNumber), CallerID(t, 0))
       ELSE pc[t] = "idle" /\ UNCHANGED <<localLockMap, tracks, globalsMutex, pc, req, myTrack,
                   wakeUp, ret, granted, mustFollow>>
    /\ fs' = [fs EXCEPT ![t].dirInodeNumber = fs[t].cursorInodeNumber,
                        ![t].dirInodeLock = fs[t].cursorInodeLock,
                        ![t].cursorInodeLock = FALSE, ![t].at = "loop"]
    /\ UNCHANGED vol

\* Lines 2503-2507: the return runs the defer registered last:
\* cursorInodeLock.Unlock() unless nil.
ResolveDeferCursor(t) ==
    /\ fs[t].op = "resolvePath"
    /\ fs[t].at = "defer"
    /\ IF fs[t].cursorInodeLock
       THEN UnlockEnter(t, LockIDOf(fs[t].cursorInodeNumber), CallerID(t, 0))
       ELSE pc[t] = "idle" /\ UNCHANGED <<localLockMap, tracks, globalsMutex, pc, req, myTrack,
                   wakeUp, ret, granted, mustFollow>>
    /\ fs' = [fs EXCEPT ![t].at = "defer dir"]
    /\ UNCHANGED vol

\* Lines 2498-2502: and then the first one: dirInodeLock.Unlock() unless nil.
ResolveDeferDir(t) ==
    /\ fs[t].op = "resolvePath"
    /\ fs[t].at = "defer dir"
    /\ IF fs[t].dirInodeLock
       THEN UnlockEnter(t, LockIDOf(fs[t].dirInodeNumber), CallerID(t, 0))
       ELSE pc[t] = "idle" /\ UNCHANGED <<localLockMap, tracks, globalsMutex, pc, req, myTrack,
                   wakeUp, ret, granted, mustFollow>>
    /\ fs' = [fs EXCEPT ![t].at = "returned"]
    /\ UNCHANGED vol

\* One thread walks one path.
Resolvers == 1..1

ResolveInit ==
    /\ LlmInit
    /\ vol \in ResolveVolumes

ResolveNext ==
    /\ ~Aborted
    /\ \E t \in Resolvers :
          \/ \E fullpath \in ResolvePaths, mode \in ResolveModes :
                ResolveCall(t, fullpath, mode)
          \/ ResolveEnsure(t)
          \/ ResolveGot(t)
          \/ ResolveLoop(t)
          \/ ResolveSymlink(t)
          \/ ResolveAbsolute(t)
          \/ ResolveReseat(t)
          \/ ResolveDirectory(t)
          \/ ResolveDeferCursor(t)
          \/ ResolveDeferDir(t)
          \/ CommonLockRequest(t)
          \/ UnlockRelease(t)
          \/ IsLockHeldAnswer(t)

\* The thread is scheduled as long as it has a step to take.
ResolveSpec == ResolveInit /\ [][ResolveNext]_vars /\ WF_vars(ResolveNext)

\* The symlinks a walk of thread t's path has to follow: the chain's, when
\* the path names its first symlink; more than any limit when each symlink of
\* the chain is its own target.
FollowsNeeded(t) ==
    IF \E i \in 1..Len(fs[t].fullpath) : fs[t].fullpath[i] = Name(vol.chain)
    THEN (IF vol.targets = "self" /\ vol.chain > 0 THEN MaxSymlinks + 1 ELSE vol.chain)
    ELSE 0

\* The symlinks the walk of thread t has followed.
Followed(t) == MaxSymlinks - fs[t].followsRemaining

\* C14: a walk that has to follow MaxSymlinks symlinks or fewer follows them
\* all and does not fail with TooManySymlinks; one that has to follow more
\* (a symlink that is its own target among them) follows MaxSymlinks of them and
\* fails with TooManySymlinks; every walk returns.
SymlinkFollowLimit ==
    /\ [](\A t \in Resolvers :
            (fs[t].op = "resolvePath" /\ Returned(t)) =>
                IF FollowsNeeded(t) <= MaxSymlinks
                THEN /\ fs[t].err # "TooManySymlinksError"
                     /\ Followed(t) = FollowsNeeded(t)
                ELSE /\ fs[t].err = "TooManySymlinksError"
                     /\ Followed(t) = MaxSymlinks)
    /\ \A t \in Resolvers : (fs[t].op = "resolvePath") ~> Returned(t)

SymlinkFollowLimitWitness ==
    \E t \in Resolvers :
        /\ fs[t].op = "resolvePath" /\ Returned(t)
        /\ Followed(t) = MaxSymlinks
        /\ fs[t].err = "nil" /\ fs[t].inodeNumber = Chain(0)

\* C15: when resolvePath has returned an error its caller-id holds no lock;
\* when it has returned an inode its caller-id holds one lock, that of the
\* inode, and inodeLock is that lock.
ResolveLockAccounting ==
    \A t \in Resolvers :
        (fs[t].op = "resolvePath" /\ Returned(t)) =>
            IF fs[t].err # "nil"
            THEN HoldsAny(t) = {}
            ELSE /\ fs[t].inodeLock
                 /\ HoldsAny(t) = {<<CallerID(t, 0), LockIDOf(fs[t].inodeNumber),
                                     StateOf(fs[t].mode)>>}

\* The variables of the lock manager.
llmVars ==
    <<localLockMap, tracks, globalsMutex, pc, req, myTrack, wakeUp, ret, granted,
      mustFollow>>

\* -------------------------------------------------- MiddlewarePutComplete
\* The volume of a PutComplete: the root directory, the container in it under
\* "c", and in the container under "x" nothing, a file, a symlink or a
\* directory; the object's path in the container is "x" or "x/y".

Container == RootDir + 1

\* The inode of the container's entry "x", if there is one.
Entry == NumKeys + 1

PutNames == {"c", "x", "y"}

\* The targets of the symlink: itself by a relative or by an absolute path, or
\* the directory it is in; strings.HasPrefix(target, "/") and
\* revSplitPath(target).
PutTargets ==
    {[abs |-> FALSE, segments |-> <<"x">>], [abs |-> TRUE, segments |-> <<"x", "c">>],
     [abs |-> FALSE, segments |-> <<".">>]}

\* numEntries is what NumDirEntries answers for the entry, linkFails whether
\* the volume fails the Link of the object into its directory.
PutVolumes ==
    {[mounted |-> TRUE, access |-> [k \in Keys |-> "ok"],
      inodes |-> [n \in Keys \cup NewInodes |->
                    IF n \in Keys THEN "DirType" ELSE IF n = Entry THEN type ELSE "free"],
      dirEntries |-> [dn \in (Keys \cup NewInodes) \X PutNames |->
                    IF dn = <<RootDir, "c">> THEN Container
                    ELSE IF dn = <<Container, "x">> /\ type # "free" THEN Entry
                    ELSE NoInode],
      target |-> target, numEntries |-> numEntries, linkFails |-> linkFails] :
        type \in {"free", "FileType", "SymlinkType", "DirType"},
        target \in PutTargets, numEntries \in {2, 3}, linkFails \in BOOLEAN}

\* revSplitPath(vObjectPath) of "x" and of "x/y".
PutPaths == {<<"x">>, <<"y", "x">>}

\* mS.makeLockID: the lock of an inode; the container's entries share the
\* root's, which is never held together with one of theirs.
PutLockIDOf(inodeNumber) == IF inodeNumber \in Keys THEN inodeNumber ELSE RootDir

\* VolumeHandle.Unlink(dirInodeNumber, basename)
Unlink(v, dir, basename) == [v EXCEPT !.dirEntries[<<dir, basename>>] = NoInode]

\* VolumeHandle.Link of an inode number that is no inode of the volume fails;
\* else as Link does.
LinkInode(v, dir, basename, n) ==
    IF n \notin DOMAIN v.inodes \/ LinkFails(v, dir, basename)
    THEN v ELSE Link(v, dir, basename, n)

\* mS.Destroy of an inode number that is no inode of the volume fails.
DestroyInode(v, n) == IF n \in DOMAIN v.inodes THEN Destroy(v, n) ELSE v

\* The locals of MiddlewarePutComplete. A lock variable is TRUE when it is not
\* nil; dirCallerID is the caller-id of dirInodeLock; obstacleInodeNumber is the
\* variable of line 1403 and lookedUp the one that line 1405 declares; follows
\* counts the symlinks followed.
PutOp(vObjectPath) ==
    [op |-> "MiddlewarePutComplete", at |-> "walk",
     vObjectBaseName |-> vObjectPath[1],
     dirs |-> SubSeq(vObjectPath, 2, Len(vObjectPath)),
     dirInodeNumber |-> Container, dirInodeLock |-> TRUE, dirCallerID |-> 0,
     dirEntInodeNumber |-> NoInode, dirEntInodeLock |-> FALSE,
     target |-> <<>>, follows |-> 0,
     fileInodeNumber |-> NoInode,
     highestUnlinkedInodeNumber |-> NoInode, highestUnlinkedName |-> "",
     haveObstacle |-> FALSE, obstacleInodeNumber |-> NoInode, lookedUp |-> NoInode,
     obstacleInodeLock |-> FALSE, unlinked |-> FALSE, linkFailed |-> FALSE,
     err |-> "nil"]

\* PutCall with a read lock on the container in the place of the write lock.
PutCallShared(t, vObjectPath) ==
    /\ fs[t].op = "none"
    /\ CommonLockEnter(t, PutLockIDOf(Container), CallerID(t, 0), shared, FALSE)
    /\ fs' = [fs EXCEPT ![t] = PutOp(vObjectPath)]
    /\ UNCHANGED vol

\* Lines 1229-1262: Lookup of the container; the caller-id;
\* getWriteLock(dirInodeNumber, callerID); the defer.
PutCall(t, vObjectPath) ==
    /\ fs[t].op = "none"
    /\ CommonLockEnter(t, PutLockIDOf(Container), CallerID(t, 0), exclusive, FALSE)
    /\ fs' = [fs EXCEPT ![t] = PutOp(vObjectPath)]
    /\ UNCHANGED vol

\* The error other than NotFoundError that VolumeHandle.Lookup answers in
\* volume v, "nil" if it has none.
PutLookupErr(v) == IF "lookupErr" \in DOMAIN v THEN v.lookupErr ELSE "nil"

\* Lines 1264-1289: the next of dirs; "." is skipped; Lookup; NotFoundError
\* ends the loop; another error is stored in err (line 1282) and the loop goes
\* on with dirs as it was; else getWriteLock(dirEntInodeNumber, callerID).
PutWalk(t) ==
    /\ fs[t].op = "MiddlewarePutComplete"
    /\ fs[t].at = "walk"
    /\ pc[t] = "idle"
    /\ LET f == fs[t]
           n == Len(f.dirs)
           thisDir == f.dirs[n]
           rest == SubSeq(f.dirs, 1, n - 1)
       IN  IF n = 0
           THEN /\ fs' = [fs EXCEPT ![t].at = "create"]
                /\ UNCHANGED llmVars
           ELSE IF thisDir = "."
           THEN /\ fs' = [fs EXCEPT ![t].dirs = rest]
                /\ UNCHANGED llmVars
           ELSE IF PutLookupErr(vol) # "nil"
           THEN /\ fs' = [fs EXCEPT ![t].err = PutLookupErr(vol)]
                /\ UNCHANGED llmVars
           ELSE IF vol.dirEntries[<<f.dirInodeNumber, thisDir>>] = NoInode
           THEN /\ fs' = [fs EXCEPT ![t].at = "create"]
                /\ UNCHANGED llmVars
           ELSE /\ CommonLockEnter(t,
                       PutLockIDOf(vol.dirEntries[<<f.dirInodeNumber, thisDir>>]),
                       CallerID(t, 0), exclusive, FALSE)
                /\ fs' = [fs EXCEPT ![t] =
                     [f EXCEPT !.dirs = rest, !.dirEntInodeLock = TRUE,
                               !.dirEntInodeNumber =
                                   vol.dirEntries[<<f.dirInodeNumber, thisDir>>],
                               !.at = "entry"]]
    /\ UNCHANGED vol

\* Lines 1291-1333: GetType. A file: NotDirError. A symlink: GetSymlink,
\* dirEntInodeLock.Unlock(), and the target's segments are appended to dirs
\* (line 1323). A directory: dirInodeLock.Unlock(), and the entry and its lock
\* become the directory and its lock.
PutEntry(t) ==
    /\ fs[t].op = "MiddlewarePutComplete"
    /\ fs[t].at = "entry"
    /\ pc[t] = "idle"
    /\ LET f == fs[t]
           type == vol.inodes[f.dirEntInodeNumber]
       IN  IF type = "FileType"
           THEN /\ fs' = [fs EXCEPT ![t].err = "NotDirError", ![t].at = "defer"]
                /\ UNCHANGED llmVars
           ELSE IF type = "SymlinkType"
           THEN /\ f.follows <= MaxSymlinks
                /\ UnlockEnter(t, PutLockIDOf(f.dirEntInodeNumber), CallerID(t, 0))
                /\ fs' = [fs EXCEPT ![t] =
                     IF vol.target.abs
                     THEN [f EXCEPT !.dirEntInodeLock = FALSE, !.follows = @ + 1,
                                    !.target = vol.target.segments, !.at = "absolute"]
                     ELSE [f EXCEPT !.dirEntInodeLock = FALSE, !.follows = @ + 1,
                                    !.dirs = @ \o vol.target.segments, !.at = "walk"]]
           ELSE /\ UnlockEnter(t, PutLockIDOf(f.dirInodeNumber),
                               CallerID(t, f.dirCallerID))
                /\ fs' = [fs EXCEPT ![t] =
                     [f EXCEPT !.dirInodeNumber = f.dirEntInodeNumber,
                               !.dirCallerID = 0, !.dirEntInodeLock = FALSE,
                               !.at = "walk"]]
    /\ UNCHANGED vol

\* Lines 1312-1316: an absolute target; dirInodeLock.Unlock(); the walk starts
\* over at the root.
PutAbsolute(t) ==
    /\ fs[t].op = "MiddlewarePutComplete"
    /\ fs[t].at = "absolute"
    /\ UnlockEnter(t, PutLockIDOf(fs[t].dirInodeNumber), CallerID(t, fs[t].dirCallerID))
    /\ fs' = [fs EXCEPT ![t].dirInodeNumber = RootDir, ![t].at = "reseat"]
    /\ UNCHANGED vol

\* Lines 1317-1323: getWriteLock(inode.RootDirInodeNumber, nil), a lock of a
\* new caller-id; the target's segments are appended to dirs.
PutReseat(t) ==
    /\ fs[t].op = "MiddlewarePutComplete"
    /\ fs[t].at = "reseat"
    /\ CommonLockEnter(t, PutLockIDOf(RootDir), CallerID(t, 1), exclusive, FALSE)
    /\ fs' = [fs EXCEPT ![t].dirCallerID = 1, ![t].dirs = @ \o fs[t].target,
                        ![t].target = <<>>, ![t].at = "walk"]
    /\ UNCHANGED vol

\* The number volume v gives its next inode.
NextInodeIn(v) ==
    CHOOSE n \in DOMAIN v.inodes \ Keys :
        v.inodes[n] = "free"
            /\ \A m \in DOMAIN v.inodes \ Keys : v.inodes[m] = "free" => n <= m

\* Lines 1374-1393: the directories still missing, from the lowest one up:
\* CreateDir, and Link of what is highest so far into it.
RECURSIVE BuildDirs(_, _, _, _, _)
BuildDirs(v, dirs, i, highestUnlinkedInodeNumber, highestUnlinkedName) ==
    IF i > Len(dirs)
    THEN [vol |-> v, highestUnlinkedInodeNumber |-> highestUnlinkedInodeNumber,
          highestUnlinkedName |-> highestUnlinkedName]
    ELSE LET newDirInodeNumber == NextInodeIn(v)
         IN  BuildDirs(Link(CreateInode(v, newDirInodeNumber, "DirType"),
                            newDirInodeNumber, highestUnlinkedName,
                            highestUnlinkedInodeNumber),
                       dirs, i + 1, newDirInodeNumber, dirs[i])

\* Lines 1345-1420: CreateFile, Wrote, PutStream; the missing directories;
\* with no directory missing, Lookup of the object's name in the directory,
\* the result in a variable of the block's own; haveObstacle and
\* getWriteLock(obstacleInodeNumber, callerID) when there is an entry.
PutCreate(t) ==
    /\ fs[t].op = "MiddlewarePutComplete"
    /\ fs[t].at = "create"
    /\ LET f == fs[t]
           fileInodeNumber == NextInodeIn(vol)
           built == BuildDirs(CreateInode(vol, fileInodeNumber, "FileType"), f.dirs, 1,
                              fileInodeNumber, f.vObjectBaseName)
           lookedUp == vol.dirEntries[<<f.dirInodeNumber, f.vObjectBaseName>>]
           g == [f EXCEPT !.fileInodeNumber = fileInodeNumber,
                          !.highestUnlinkedInodeNumber = built.highestUnlinkedInodeNumber,
                          !.highestUnlinkedName = built.highestUnlinkedName]
       IN  /\ vol' = built.vol
           /\ IF Len(f.dirs) = 0 /\ lookedUp # NoInode
              THEN /\ CommonLockEnter(t, PutLockIDOf(lookedUp), CallerID(t, 0),
                                      exclusive, FALSE)
                   /\ fs' = [fs EXCEPT ![t] =
                        [g EXCEPT !.haveObstacle = TRUE, !.lookedUp = lookedUp,
                                  !.obstacleInodeLock = TRUE, !.at = "obstacle"]]
              ELSE /\ pc[t] = "idle"
                   /\ fs' = [fs EXCEPT ![t] = [g EXCEPT !.at = "link"]]
                   /\ UNCHANGED llmVars

\* Line 1422 and removeObstacleToObjectPut, lines 2620-2661, on the inode that
\* Lookup found: a file or a symlink is unlinked; a directory is unlinked if
\* NumDirEntries is less than 3, else IsDirError.
PutRemoveObstacle(t) ==
    /\ fs[t].op = "MiddlewarePutComplete"
    /\ fs[t].at = "obstacle"
    /\ pc[t] = "idle"
    /\ IF vol.inodes[fs[t].lookedUp] = "DirType" /\ vol.numEntries >= 3
       THEN /\ fs' = [fs EXCEPT ![t].err = "IsDirError", ![t].at = "defer obstacle"]
            /\ vol' = vol
       ELSE /\ fs' = [fs EXCEPT ![t].unlinked = TRUE, ![t].at = "link"]
            /\ vol' = Unlink(vol, fs[t].dirInodeNumber, fs[t].vObjectBaseName)
    /\ UNCHANGED llmVars

\* Lines 1439-1475: Link of what is highest into the directory. It fails: the
\* error is returned, after Link of obstacleInodeNumber under the object's name
\* if haveObstacle. It succeeds: Destroy(obstacleInodeNumber) if haveObstacle;
\* GetMetadata.
PutLink(t) ==
    /\ fs[t].op = "MiddlewarePutComplete"
    /\ fs[t].at = "link"
    /\ pc[t] = "idle"
    /\ LET f == fs[t]
       IN  IF vol.linkFails \/ LinkFails(vol, f.dirInodeNumber, f.highestUnlinkedName)
           THEN /\ vol' = IF f.haveObstacle
                          THEN LinkInode(vol, f.dirInodeNumber, f.vObjectBaseName,
                                         f.obstacleInodeNumber)
                          ELSE vol
                /\ fs' = [fs EXCEPT ![t].err = "LinkError", ![t].linkFailed = TRUE,
                                    ![t].at = "defer obstacle"]
           ELSE /\ vol' = IF f.haveObstacle
                          THEN DestroyInode(Link(vol, f.dirInodeNumber,
                                                 f.highestUnlinkedName,
                                                 f.highestUnlinkedInodeNumber),
                                            f.obstacleInodeNumber)
                          ELSE Link(vol, f.dirInodeNumber, f.highestUnlinkedName,
                                    f.highestUnlinkedInodeNumber)
                /\ fs' = [fs EXCEPT ![t].at = "defer obstacle"]
    /\ UNCHANGED llmVars

\* Line 1420: the return runs the defer registered last:
\* obstacleInodeLock.Unlock().
PutDeferObstacle(t) ==
    /\ fs[t].op = "MiddlewarePutComplete"
    /\ fs[t].at = "defer obstacle"
    /\ IF fs[t].obstacleInodeLock
       THEN UnlockEnter(t, PutLockIDOf(fs[t].lookedUp), CallerID(t, 0))
       ELSE pc[t] = "idle" /\ UNCHANGED llmVars
    /\ fs' = [fs EXCEPT ![t].at = "defer"]
    /\ UNCHANGED vol

\* Lines 1255-1258: then the first defer: dirInodeLock.Unlock().
PutDeferDir(t) ==
    /\ fs[t].op = "MiddlewarePutComplete"
    /\ fs[t].at = "defer"
    /\ UnlockEnter(t, PutLockIDOf(fs[t].dirInodeNumber), CallerID(t, fs[t].dirCallerID))
    /\ fs' = [fs EXCEPT ![t].at = "defer dirEnt"]
    /\ UNCHANGED vol

\* Lines 1259-1261: and dirEntInodeLock.Unlock() unless nil.
PutDeferDirEnt(t) ==
    /\ fs[t].op = "MiddlewarePutComplete"
    /\ fs[t].at = "defer dirEnt"
    /\ IF fs[t].dirEntInodeLock
       THEN UnlockEnter(t, PutLockIDOf(fs[t].dirEntInodeNumber), CallerID(t, 0))
       ELSE pc[t] = "idle" /\ UNCHANGED llmVars
    /\ fs' = [fs EXCEPT ![t].at = "returned"]
    /\ UNCHANGED vol

\* One thread puts one object.
Putters == 1..1

PutInit ==
    /\ LlmInit
    /\ vol \in PutVolumes

PutNext ==
    /\ ~Aborted
    /\ \E t \in Putters :
          \/ \E vObjectPath \in PutPaths : PutCall(t, vObjectPath)
          \/ PutWalk(t)
          \/ PutEntry(t)
          \/ PutAbsolute(t)
          \/ PutReseat(t)
          \/ PutCreate(t)
          \/ PutRemoveObstacle(t)
          \/ PutLink(t)
          \/ PutDeferObstacle(t)
          \/ PutDeferDir(t)
          \/ PutDeferDirEnt(t)
          \/ CommonLockRequest(t)
          \/ UnlockRelease(t)

\* The thread is scheduled as long as it has a step to take.
PutSpec == PutInit /\ [][PutNext]_vars /\ WF_vars(PutNext)

\* C16: when PutComplete has succeeded for a name that referred to a file, a
\* symlink or an empty directory, the name refers to the new file, the inode
\* it displaced is destroyed and no other inode is.
PutCompleteDestroysObstacle ==
    \A t \in Putters :
        (fs[t].op = "MiddlewarePutComplete" /\ Returned(t)
            /\ fs[t].err = "nil" /\ fs[t].haveObstacle) =>
            /\ vol.dirEntries[<<fs[t].dirInodeNumber, fs[t].vObjectBaseName>>]
                   = fs[t].fileInodeNumber
            /\ \A n \in DOMAIN vol.inodes :
                  vol.inodes[n] = "destroyed" <=> n = fs[t].lookedUp

\* C17: when the Link of the object has failed after the obstacle was
\* unlinked, PutComplete returns the error of that Link, and the name refers
\* again to the inode that was unlinked.
PutCompleteRelinksObstacle ==
    \A t \in Putters :
        (fs[t].op = "MiddlewarePutComplete" /\ Returned(t)
            /\ fs[t].unlinked /\ fs[t].linkFailed) =>
            /\ fs[t].err = "LinkError"
            /\ vol.dirEntries[<<fs[t].dirInodeNumber, fs[t].vObjectBaseName>>]
                   = fs[t].lookedUp

\* C18: PutComplete follows no more than MaxSymlinks symlinks.
PutCompleteFollowsBounded ==
    \A t \in Putters :
        fs[t].op = "MiddlewarePutComplete" => fs[t].follows <= MaxSymlinks

\* ------------------------------ MiddlewarePutContainer and MiddlewarePost
\* The volume keeps each inode's "middleware" stream. The container is the
\* root's entry "c", if there is one; before is the stream it had before the
\* calls.

\* The byte strings of the metadata.
Metadata == {<<>>, <<1>>, <<9>>}

\* No stream: GetStream returns StreamNotFound.
NoStream == [found |-> FALSE, data |-> <<>>]

Stream(data) == [found |-> TRUE, data |-> data]

MetaVolumes ==
    {[mounted |-> TRUE, access |-> [k \in Keys |-> "ok"],
      inodes |-> [n \in Keys \cup NewInodes |->
                    IF n = RootDir \/ (n = Container /\ exists) THEN "DirType" ELSE "free"],
      dirEntries |-> [dn \in (Keys \cup NewInodes) \X PutNames |->
                    IF dn = <<RootDir, "c">> /\ exists THEN Container ELSE NoInode],
      streams |-> [n \in Keys \cup NewInodes |->
                    IF n = Container /\ exists THEN stream ELSE NoStream],
      before |-> IF exists THEN stream ELSE NoStream] :
        exists \in BOOLEAN, stream \in {NoStream} \cup {Stream(d) : d \in Metadata}}

\* mS.PutStream(inodeNumber, MiddlewareStream, data)
PutStream(v, n, data) == [v EXCEPT !.streams[n] = Stream(data)]

\* The locals of MiddlewarePutContainer and of MiddlewarePost; inodeNumber is
\* the container's or the new directory's.
MetaOp(op, oldMetadata, newMetadata) ==
    [op |-> op, at |-> "root", oldMetadata |-> oldMetadata,
     newMetadata |-> newMetadata, inodeNumber |-> NoInode, err |-> "nil"]

\* Lines 1478-1494: getWriteLock(inode.RootDirInodeNumber, nil); the defer.
PutContainerCall(t, oldMetadata, newMetadata) ==
    /\ fs[t].op = "none"
    /\ CommonLockEnter(t, LockIDOf(RootDir), CallerID(t, 0), exclusive, FALSE)
    /\ fs' = [fs EXCEPT ![t] = MetaOp("MiddlewarePutContainer", oldMetadata, newMetadata)]
    /\ UNCHANGED vol

\* Lines 1496-1509 and 1522-1526: Lookup of the container in the root. Not
\* found: CreateDir and getWriteLock(newDirInodeNumber, nil). Found:
\* getWriteLock(containerInodeNumber, nil). Each lock with its defer.
PutContainerLookup(t) ==
    /\ fs[t].op = "MiddlewarePutContainer"
    /\ fs[t].at = "root"
    /\ LET containerInodeNumber == vol.dirEntries[<<RootDir, "c">>]
       IN  IF containerInodeNumber = NoInode
           THEN /\ CommonLockEnter(t, LockIDOf(NextInodeIn(vol)), CallerID(t, 1),
                                   exclusive, FALSE)
                /\ vol' = CreateInode(vol, NextInodeIn(vol), "DirType")
                /\ fs' = [fs EXCEPT ![t].inodeNumber = NextInodeIn(vol),
                                    ![t].at = "new"]
           ELSE /\ CommonLockEnter(t, LockIDOf(containerInodeNumber), CallerID(t, 1),
                                   exclusive, FALSE)
                /\ vol' = vol
                /\ fs' = [fs EXCEPT ![t].inodeNumber = containerInodeNumber,
                                    ![t].at = "container"]

\* Lines 1511-1519: PutStream of the new metadata on the new directory; Link
\* of it into the root.
PutContainerCreate(t) ==
    /\ fs[t].op = "MiddlewarePutContainer"
    /\ fs[t].at = "new"
    /\ pc[t] = "idle"
    /\ vol' = LinkInode(PutStream(vol, fs[t].inodeNumber, fs[t].newMetadata),
                        RootDir, "c", fs[t].inodeNumber)
    /\ fs' = [fs EXCEPT ![t].at = "defer"]
    /\ UNCHANGED llmVars

\* The same lines without the comparison.
PutContainerStore(t) ==
    /\ fs[t].op = "MiddlewarePutContainer"
    /\ fs[t].at = "container"
    /\ pc[t] = "idle"
    /\ vol' = PutStream(vol, fs[t].inodeNumber, fs[t].newMetadata)
    /\ fs' = [fs EXCEPT ![t].at = "defer"]
    /\ UNCHANGED llmVars

\* Lines 1529-1546: GetStream, no stream counting as the empty one; TryAgain
\* unless bytes.Equal(existingMetadata, oldMetadata); else PutStream of the
\* new metadata.
PutContainerSwap(t) ==
    /\ fs[t].op = "MiddlewarePutContainer"
    /\ fs[t].at = "container"
    /\ pc[t] = "idle"
    /\ LET existingMetadata == vol.streams[fs[t].inodeNumber].data
       IN  IF existingMetadata # fs[t].oldMetadata
           THEN /\ vol' = vol
                /\ fs' = [fs EXCEPT ![t].err = "TryAgainError", ![t].at = "defer"]
           ELSE /\ vol' = PutStream(vol, fs[t].inodeNumber, fs[t].newMetadata)
                /\ fs' = [fs EXCEPT ![t].at = "defer"]
    /\ UNCHANGED llmVars

\* Lines 1509 and 1526: the return runs the defer registered last, the Unlock
\* of the new directory's or of the container's lock.
PutContainerDefer(t) ==
    /\ fs[t].op = "MiddlewarePutContainer"
    /\ fs[t].at = "defer"
    /\ UnlockEnter(t, LockIDOf(fs[t].inodeNumber), CallerID(t, 1))
    /\ fs' = [fs EXCEPT ![t].at = "defer root"]
    /\ UNCHANGED vol

\* Line 1494: and then rootInodeLock.Unlock().
PutContainerDeferRoot(t) ==
    /\ fs[t].op = "MiddlewarePutContainer"
    /\ fs[t].at = "defer root"
    /\ UnlockEnter(t, LockIDOf(RootDir), CallerID(t, 0))
    /\ fs' = [fs EXCEPT ![t].at = "returned"]
    /\ UNCHANGED vol

\* Lines 1199-1202 and resolvePath, lines 2484-2494, for the path of the
\* container: getLock on the root.
PostCall(t, oldMetaData, newMetaData) ==
    /\ fs[t].op = "none"
    /\ CommonLockEnter(t, LockIDOf(RootDir), CallerID(t, 0), exclusive, FALSE)
    /\ fs' = [fs EXCEPT ![t] = MetaOp("MiddlewarePost", oldMetaData, newMetaData)]
    /\ UNCHANGED vol

\* resolvePath, lines 2522-2529: Lookup, and getLock on what it found; its
\* error is returned (lines 1203-1205) after the deferred Unlock of the root.
PostLookup(t) ==
    /\ fs[t].op = "MiddlewarePost"
    /\ fs[t].at = "root"
    /\ LET cursorInodeNumber == vol.dirEntries[<<RootDir, "c">>]
       IN  IF cursorInodeNumber = NoInode
           THEN /\ UnlockEnter(t, LockIDOf(RootDir), CallerID(t, 0))
                /\ fs' = [fs EXCEPT ![t].err = "NotFoundError", ![t].at = "returned"]
           ELSE /\ CommonLockEnter(t, LockIDOf(cursorInodeNumber), CallerID(t, 1),
                                   exclusive, FALSE)
                /\ fs' = [fs EXCEPT ![t].inodeNumber = cursorInodeNumber,
                                    ![t].at = "cursor"]
    /\ UNCHANGED vol

\* resolvePath, lines 2572-2582 and 2498-2502: the last segment's inode is
\* returned with its lock; the deferred Unlock of the root.
PostResolved(t) ==
    /\ fs[t].op = "MiddlewarePost"
    /\ fs[t].at = "cursor"
    /\ UnlockEnter(t, LockIDOf(RootDir), CallerID(t, 0))
    /\ fs' = [fs EXCEPT ![t].at = "locked"]
    /\ UNCHANGED vol

\* Lines 1210-1226: GetStream; with a stream that differs from oldMetaData,
\* TryAgain; else, and with no stream, PutStream of newMetaData.
PostStore(t) ==
    /\ fs[t].op = "MiddlewarePost"
    /\ fs[t].at = "locked"
    /\ pc[t] = "idle"
    /\ LET existingStreamData == vol.streams[fs[t].inodeNumber]
       IN  IF existingStreamData.found /\ existingStreamData.data # fs[t].oldMetadata
           THEN /\ vol' = vol
                /\ fs' = [fs EXCEPT ![t].err = "TryAgainError", ![t].at = "defer"]
           ELSE /\ vol' = PutStream(vol, fs[t].inodeNumber, fs[t].newMetadata)
                /\ fs' = [fs EXCEPT ![t].at = "defer"]
    /\ UNCHANGED llmVars

\* Line 1206: the deferred baseInodeLock.Unlock().
PostDefer(t) ==
    /\ fs[t].op = "MiddlewarePost"
    /\ fs[t].at = "defer"
    /\ UnlockEnter(t, LockIDOf(fs[t].inodeNumber), CallerID(t, 1))
    /\ fs' = [fs EXCEPT ![t].at = "returned"]
    /\ UNCHANGED vol

\* Two threads, each with one call on the container's metadata.
MetaInit ==
    /\ LlmInit
    /\ vol \in MetaVolumes

MetaNext ==
    /\ ~Aborted
    /\ \E t \in Clients :
          \/ \E oldMetadata \in Metadata, newMetadata \in Metadata :
                PutContainerCall(t, oldMetadata, newMetadata)
          \/ PutContainerLookup(t)
          \/ PutContainerCreate(t)
          \/ PutContainerSwap(t)
          \/ PutContainerDefer(t)
          \/ PutContainerDeferRoot(t)
          \/ \E oldMetaData \in Metadata, newMetaData \in Metadata :
                PostCall(t, oldMetaData, newMetaData)
          \/ PostLookup(t)
          \/ PostResolved(t)
          \/ PostStore(t)
          \/ PostDefer(t)
          \/ LockStep(t)

MetaSpec == MetaInit /\ [][MetaNext]_vars

\* The two calls have returned.
BothReturned == \A t \in Clients : fs[t].at = "returned"

\* C20: MiddlewarePost is a compare-and-swap for every state of the target's
\* stream: the step that decides stores newMetaData if the current stream,
\* none counting as the empty one, equals oldMetaData, and otherwise fails
\* with TryAgain and leaves the stream as it is.
PostIsCompareAndSwap ==
    [][\A t \in Clients :
          PostStore(t) =>
              IF vol.streams[fs[t].inodeNumber].data = fs[t].oldMetadata
              THEN /\ vol'.streams[fs[t].inodeNumber] = Stream(fs[t].newMetadata)
                   /\ fs'[t].err = "nil"
              ELSE /\ vol'.streams = vol.streams
                   /\ fs'[t].err = "TryAgainError"]_vars

\* The step of MiddlewarePutContainer that decides is a compare-and-swap: on
\* a fresh name the new directory gets newMetadata and becomes the root's
\* entry; on a container, newMetadata is stored if and only if the current
\* stream, none counting as the empty one, equals oldMetadata, and otherwise
\* the call fails with TryAgain and the stream is as it was.
PutContainerStep ==
    \A t \in Clients :
        /\ PutContainerCreate(t) =>
              /\ vol.dirEntries[<<RootDir, "c">>] = NoInode
              /\ vol'.dirEntries[<<RootDir, "c">>] = fs[t].inodeNumber
              /\ vol'.streams[fs[t].inodeNumber] = Stream(fs[t].newMetadata)
              /\ fs'[t].err = "nil"
        /\ (fs[t].op = "MiddlewarePutContainer" /\ fs[t].at = "container"
                /\ fs'[t].at # fs[t].at) =>
              IF vol.streams[fs[t].inodeNumber].data = fs[t].oldMetadata
              THEN /\ vol'.streams[fs[t].inodeNumber] = Stream(fs[t].newMetadata)
                   /\ fs'[t].err = "nil"
              ELSE /\ vol'.streams = vol.streams
                   /\ fs'[t].err = "TryAgainError"

\* The container is created at most once, and is the root's entry.
CreatedOnce ==
    /\ Cardinality({n \in NewInodes : vol.inodes[n] # "free"}) <= 1
    /\ \A t \in Clients :
          (fs[t].op = "MiddlewarePutContainer" /\ fs[t].at = "returned")
              => vol.dirEntries[<<RootDir, "c">>] # NoInode

\* Two calls of MiddlewarePutContainer on the container that was there, with
\* the same oldMetadata and different newMetadata, have returned.
PutContainerRace ==
    /\ BothReturned
    /\ \A t \in Clients : fs[t].op = "MiddlewarePutContainer" /\ fs[t].inodeNumber = Container
    /\ \A t, u \in Clients :
          /\ fs[t].oldMetadata = fs[u].oldMetadata
          /\ t # u => fs[t].newMetadata # fs[u].newMetadata

Succeeded == {t \in Clients : fs[t].err = "nil"}

\* C19 as stated: of any two such calls exactly one succeeds.
PutContainerExactlyOne == PutContainerRace => Cardinality(Succeeded) = 1

\* C19: MiddlewarePutContainer is a compare-and-swap on the container's
\* stream, a fresh name being created once with newMetadata; of two concurrent
\* calls on the container with the same oldMetadata and different newMetadata,
\* exactly one succeeds if the stream, none counting as the empty one,
\* equalled oldMetadata before them and neither newMetadata is oldMetadata,
\* and none succeeds if the stream differed from oldMetadata.
PutContainerCompareAndSwap ==
    /\ [][PutContainerStep]_vars
    /\ [](/\ CreatedOnce
          /\ PutContainerRace =>
                IF vol.before.data # fs[1].oldMetadata
                THEN Succeeded = {}
                ELSE (\A t \in Clients : fs[t].newMetadata # fs[t].oldMetadata)
                        => Cardinality(Succeeded) = 1)

PutContainerWitness ==
    /\ PutContainerRace
    /\ vol.before.data = fs[1].oldMetadata
    /\ \A t \in Clients : fs[t].newMetadata # fs[t].oldMetadata
    /\ Cardinality(Succeeded) = 1
    /\ \E t \in Clients : fs[t].err = "TryAgainError"

\* ------------------------------------------------- MiddlewareGetContainer
\* Names and paths are strings of bytes, compared as Go compares strings.
Ascii == [dash |-> 45, dot |-> 46, slash |-> 47,
          a |-> 97, d |-> 100, e |-> 101, f |-> 102, s |-> 115]

\* Go's < on strings.
RECURSIVE StrLess(_, _)
StrLess(x, y) ==
    IF y = <<>> THEN FALSE
    ELSE IF x = <<>> THEN TRUE
    ELSE IF Head(x) = Head(y) THEN StrLess(Tail(x), Tail(y))
    ELSE Head(x) < Head(y)

\* strings.HasPrefix(str, prefix)
HasPrefix(str, prefix) ==
    /\ Len(prefix) <= Len(str)
    /\ SubSeq(str, 1, Len(prefix)) = prefix

\* The inodes of the listed trees: the container, a directory the rest may be
\* nested in, the directory d, its file f, d's sibling d- and the sibling e.
ListInodes == [container |-> 1, nest |-> 2, d |-> 3, f |-> 4, dash |-> 5, e |-> 6]

\* A directory's entries as Readdir gives them, in lexicographic order, from
\* the entries that are there.
DirEntriesOf(candidates) == SelectSeq(candidates, LAMBDA c : c.there)

DirEntry(basename, inodeNumber, there) ==
    [Basename |-> basename, InodeNumber |-> inodeNumber, there |-> there]

\* The trees: d (none, empty, or with the file f), its siblings d- (a file) and
\* e (a file or a symlink), in the container itself or in its directory a or s.
ListVolumes ==
    {[mounted |-> TRUE, access |-> [k \in Keys |-> "ok"],
      types |-> [container |-> "DirType", nest |-> "DirType", d |-> "DirType",
                 f |-> "FileType", dash |-> "FileType", e |-> typeOfE],
      nest |-> nest,
      contents |-> DirEntriesOf(<<
           DirEntry(<<Ascii.dot>>, IF nest = <<>> THEN ListInodes.container
                                   ELSE ListInodes.nest, TRUE),
           DirEntry(<<Ascii.dot, Ascii.dot>>, ListInodes.container, TRUE),
           DirEntry(<<Ascii.d>>, ListInodes.d, d # "none"),
           DirEntry(<<Ascii.d, Ascii.dash>>, ListInodes.dash, dash),
           DirEntry(<<Ascii.e>>, ListInodes.e, typeOfE # "none")>>),
      inD |-> DirEntriesOf(<<
           DirEntry(<<Ascii.dot>>, ListInodes.d, TRUE),
           DirEntry(<<Ascii.dot, Ascii.dot>>, ListInodes.container, TRUE),
           DirEntry(<<Ascii.f>>, ListInodes.f, d = "full")>>)] :
        nest \in {<<>>, <<Ascii.a>>, <<Ascii.s>>},
        d \in {"none", "empty", "full"},
        dash \in BOOLEAN,
        typeOfE \in {"none", "FileType", "SymlinkType"}}

\* The entries of a directory of the tree v.
EntriesOf(v, dirInode) ==
    IF dirInode = ListInodes.d THEN v.inD
    ELSE IF dirInode = ListInodes.nest \/ v.nest = <<>> THEN v.contents
    ELSE <<DirEntry(<<Ascii.dot>>, ListInodes.container, TRUE),
           DirEntry(<<Ascii.dot, Ascii.dot>>, ListInodes.container, TRUE),
           DirEntry(v.nest, ListInodes.nest, TRUE)>>

\* The type Getstat reports.
TypeOfInode(v, inodeNumber) ==
    LET field == CHOOSE g \in DOMAIN ListInodes : ListInodes[g] = inodeNumber
    IN  v.types[field]

\* mS.Readdir: at most maxEntries entries after prevBasenameReturned, and
\* whether there are more.
Readdir(v, inodeNumber, prevBasenameReturned, maxEntries) ==
    LET after == SelectSeq(EntriesOf(v, inodeNumber),
                           LAMBDA c : StrLess(prevBasenameReturned, c.Basename))
    IN  [entries |-> IF Len(after) <= maxEntries THEN after
                     ELSE SubSeq(after, 1, maxEntries),
         areMoreEntries |-> Len(after) > maxEntries]

\* The same test without the prefix.
EmittedAboveMarker(in, fileName) == StrLess(in.marker, fileName)

\* Lines 1029-1034 and 1064: an entry is appended when its path is above the
\* marker and begins with the prefix.
Emitted(in, fileName) ==
    /\ StrLess(in.marker, fileName)
    /\ HasPrefix(fileName, in.prefix)

ContainerEntry(fileName, inodeNumber, isDir) ==
    [Basename |-> fileName, InodeNumber |-> inodeNumber, IsDir |-> isDir]

RECURSIVE recursiveReaddirPlus(_, _, _, _, _)
RECURSIVE ReaddirLoop(_, _, _, _, _, _, _, _, _)
RECURSIVE PendingDescents(_, _, _, _, _)

\* Lines 958-970: the pending descents that go before the next entry; the
\* walk is finished when one of them filled the listing.
PendingDescents(v, in, dirEnts, recursiveDescents, containerEnts) ==
    IF /\ recursiveDescents # <<>>
       /\ \/ dirEnts = <<>>
          \/ StrLess(Head(recursiveDescents).name, Head(dirEnts).Basename)
    THEN LET listed == recursiveReaddirPlus(v, in, Head(recursiveDescents).name,
                                            Head(recursiveDescents).ino, containerEnts)
         IN  IF Len(listed) >= in.maxEntries
             THEN [finished |-> TRUE, recursiveDescents |-> recursiveDescents,
                   containerEnts |-> listed]
             ELSE PendingDescents(v, in, dirEnts, Tail(recursiveDescents), listed)
    ELSE [finished |-> FALSE, recursiveDescents |-> recursiveDescents,
          containerEnts |-> containerEnts]

\* Lines 935-1076: the loop of recursiveReaddirPlus, one iteration.
ReaddirLoop(v, in, dirName, dirInode, dirEnts, recursiveDescents, areMoreEntries, lastBasename, containerEnts) ==
    IF ~ /\ areMoreEntries \/ dirEnts # <<>> \/ recursiveDescents # <<>>
         /\ Len(containerEnts) < in.maxEntries
    THEN containerEnts
    ELSE
    LET load == areMoreEntries /\ dirEnts = <<>>
        read == Readdir(v, dirInode, lastBasename, in.maxEntries - Len(containerEnts))
        loaded == IF load THEN read.entries ELSE dirEnts
        more == IF load THEN read.areMoreEntries ELSE areMoreEntries
        last == IF load /\ read.entries # <<>>
                THEN read.entries[Len(read.entries)].Basename ELSE lastBasename
    IN  IF loaded # <<>> /\ Head(loaded).Basename \in {<<Ascii.dot>>, <<Ascii.dot, Ascii.dot>>}
        THEN ReaddirLoop(v, in, dirName, dirInode, Tail(loaded), recursiveDescents,
                         more, last, containerEnts)
        ELSE
        LET pending == PendingDescents(v, in, loaded, recursiveDescents, containerEnts)
        IN  IF pending.finished THEN pending.containerEnts
            ELSE IF loaded = <<>>
            THEN ReaddirLoop(v, in, dirName, dirInode, loaded, pending.recursiveDescents,
                             more, last, pending.containerEnts)
            ELSE
            LET dirEnt == Head(loaded)
                fileName == IF Len(dirName) > 0 THEN dirName \o dirEnt.Basename
                            ELSE dirEnt.Basename
                isDir == TypeOfInode(v, dirEnt.InodeNumber) \notin {"FileType", "SymlinkType"}
                appended == IF Emitted(in, fileName)
                            THEN Append(pending.containerEnts,
                                        ContainerEntry(fileName, dirEnt.InodeNumber, isDir))
                            ELSE pending.containerEnts
                skipped == ReaddirLoop(v, in, dirName, dirInode, Tail(loaded),
                                       pending.recursiveDescents, more, last,
                                       pending.containerEnts)
            IN  IF StrLess(in.prefix, fileName) /\ ~HasPrefix(fileName, in.prefix)
                THEN pending.containerEnts
                ELSE IF ~StrLess(in.marker, fileName) /\ ~HasPrefix(in.marker, fileName)
                THEN skipped
                ELSE IF ~isDir
                THEN ReaddirLoop(v, in, dirName, dirInode, Tail(loaded),
                                 pending.recursiveDescents, more, last, appended)
                ELSE IF ~HasPrefix(fileName, in.prefix) /\ ~HasPrefix(in.prefix, fileName)
                THEN skipped
                ELSE ReaddirLoop(v, in, dirName, dirInode, Tail(loaded),
                                 Append(pending.recursiveDescents,
                                        [name |-> fileName \o <<Ascii.slash>>,
                                         ino |-> dirEnt.InodeNumber]),
                                 more, last, appended)

\* Lines 926-933: recursiveReaddirPlus(dirName, dirInode), from the entries
\* listed so far to the entries listed after it.
recursiveReaddirPlus(v, in, dirName, dirInode, containerEnts) ==
    ReaddirLoop(v, in, dirName, dirInode, <<>>, <<>>, TRUE, <<>>, containerEnts)

\* The markers and prefixes of the calls: what the paths of the tree begin
\* with.
ListStrings(v) ==
    LET in == IF v.nest = <<>> THEN <<>> ELSE v.nest \o <<Ascii.slash>>
    IN  {<<>>, v.nest, in,
         in \o <<Ascii.d>>, in \o <<Ascii.d, Ascii.slash>>,
         in \o <<Ascii.d, Ascii.slash, Ascii.f>>,
         in \o <<Ascii.d, Ascii.dash>>, in \o <<Ascii.e>>}

ListLimits == {0, 1, 2, 5}

\* Lines 906-921: resolvePathForRead of the container gives its inode and
\* read lock.
GetContainerCall(t, maxEntries, marker, prefix) ==
    /\ fs[t].op = "none"
    /\ CommonLockEnter(t, LockIDOf(Container), CallerID(t, 0), shared, FALSE)
    /\ fs' = [fs EXCEPT ![t] =
                [op |-> "MiddlewareGetContainer", at |-> "resolved",
                 maxEntries |-> maxEntries, marker |-> marker, prefix |-> prefix,
                 ino |-> ListInodes.container, containerEnts |-> <<>>, err |-> "nil"]]
    /\ UNCHANGED vol

\* Line 921: inoLock.Unlock(), no lock is held over the listing.
GetContainerUnlock(t) ==
    /\ fs[t].op = "MiddlewareGetContainer"
    /\ fs[t].at = "resolved"
    /\ UnlockEnter(t, LockIDOf(Container), CallerID(t, 0))
    /\ fs' = [fs EXCEPT ![t].at = "unlocked"]
    /\ UNCHANGED vol

\* Lines 923-1087: the listing, recursiveReaddirPlus("", ino).
GetContainerList(t) ==
    /\ fs[t].op = "MiddlewareGetContainer"
    /\ fs[t].at = "unlocked"
    /\ pc[t] = "idle"
    /\ fs' = [fs EXCEPT ![t].containerEnts =
                            recursiveReaddirPlus(vol, fs[t], <<>>, fs[t].ino, <<>>),
                        ![t].at = "returned"]
    /\ UNCHANGED <<llmVars, vol>>

Listers == 1..1

GetContainerInit ==
    /\ LlmInit
    /\ vol \in ListVolumes

GetContainerNext ==
    /\ ~Aborted
    /\ \E t \in Listers :
          \/ \E maxEntries \in ListLimits, marker \in ListStrings(vol),
                prefix \in ListStrings(vol) :
                GetContainerCall(t, maxEntries, marker, prefix)
          \/ GetContainerUnlock(t)
          \/ GetContainerList(t)
          \/ CommonLockRequest(t)
          \/ UnlockRelease(t)

GetContainerSpec == GetContainerInit /\ [][GetContainerNext]_vars

\* The container-relative paths of the tree, each with its inode.
AllPaths(v) ==
    LET in == IF v.nest = <<>> THEN <<>> ELSE v.nest \o <<Ascii.slash>>
        named(dirName, entries) ==
            {[path |-> dirName \o entries[i].Basename, ino |-> entries[i].InodeNumber] :
                i \in {j \in 1..Len(entries) : Head(entries[j].Basename) # Ascii.dot}}
    IN  (IF v.nest = <<>> THEN {} ELSE {[path |-> v.nest, ino |-> ListInodes.nest]})
        \cup named(in, v.contents)
        \cup (IF \E i \in 1..Len(v.contents) : v.contents[i].InodeNumber = ListInodes.d
              THEN named(in \o <<Ascii.d, Ascii.slash>>, v.inD) ELSE {})

\* The paths a call asks for: above its marker and beginning with its prefix.
Matches(v, in) ==
    {p \in AllPaths(v) : StrLess(in.marker, p.path) /\ HasPrefix(p.path, in.prefix)}

Listing(t) == fs[t].op = "MiddlewareGetContainer" /\ fs[t].at = "returned"

\* C21: MiddlewareGetContainer returns its entries in strictly ascending
\* lexicographic order of their paths, for every tree and at every nesting
\* depth.
GetContainerAscending ==
    \A t \in Listers :
        Listing(t) =>
            \A i, j \in 1..Len(fs[t].containerEnts) :
                i < j => StrLess(fs[t].containerEnts[i].Basename,
                                 fs[t].containerEnts[j].Basename)

\* C22: with maxEntries at least the number of matches, the listing has every
\* file and symlink whose path begins with the prefix and is above the marker,
\* at every nesting depth.
GetContainerComplete ==
    \A t \in Listers :
        (Listing(t) /\ fs[t].maxEntries >= Cardinality(Matches(vol, fs[t]))) =>
            \A p \in Matches(vol, fs[t]) :
                TypeOfInode(vol, p.ino) \in {"FileType", "SymlinkType"} =>
                    \E i \in 1..Len(fs[t].containerEnts) :
                        fs[t].containerEnts[i].Basename = p.path

\* C23: the listing never has more than maxEntries entries; every entry's
\* path is above the marker and begins with the prefix; IsDir is set on the
\* directories and on nothing else.
GetContainerBounded ==
    \A t \in Listers :
        Listing(t) =>
            /\ Len(fs[t].containerEnts) <= fs[t].maxEntries
            /\ \A i \in 1..Len(fs[t].containerEnts) :
                  LET containerEnt == fs[t].containerEnts[i]
                  IN  /\ StrLess(fs[t].marker, containerEnt.Basename)
                      /\ HasPrefix(containerEnt.Basename, fs[t].prefix)
                      /\ containerEnt.IsDir =
                            (TypeOfInode(vol, containerEnt.InodeNumber) = "DirType")

GetContainerBoundedWitness ==
    \E t \in Listers :
        /\ Listing(t)
        /\ fs[t].marker # <<>>
        /\ fs[t].prefix # <<>>
        /\ Len(fs[t].containerEnts) = fs[t].maxEntries
        /\ Cardinality(Matches(vol, fs[t])) > fs[t].maxEntries
        /\ Cardinality(AllPaths(vol)) > Cardinality(Matches(vol, fs[t]))
        /\ \E i, j \in 1..Len(fs[t].containerEnts) :
              fs[t].containerEnts[i].IsDir /\ ~fs[t].containerEnts[j].IsDir

\* ------------------------------------------------------------------ Flock
\* The byte-range locks of one inode: vol.flockList is the list.List that
\* vol.FLockMap has for it, of FlockStruct values (Whence is always 0).

\* The offsets of the requests go up to MaxOffset, their lengths stay below
\* it; a list has up to MaxFlocks locks.

Pids == 1..2

FlockStructs ==
    [Type : {"F_RDLCK", "F_WRLCK", "F_UNLCK"}, Pid : Pids,
     Start : 0..MaxOffset, Len : 0..(MaxOffset - 1)]

\* No element, no FlockStruct: nil.
NoFlock == [Type |-> "nil", Pid |-> 0, Start |-> 0, Len |-> 0]

FlockVolume ==
    [mounted |-> TRUE, access |-> [k \in Keys |-> "ok"], flockList |-> <<>>]

\* Lines 247-252 and 259-265: lockEnd and elmEnd.
FlockEnd(flock) ==
    IF flock.Len = 0 THEN MaxUint64
    ELSE (flock.Start + flock.Len) % (MaxUint64 + 1)

\* Two locks have a byte in common: a lock is the bytes from Start to
\* Start + Len - 1, or to the end of the file if Len is 0.
Overlap(x, y) == x.Start < FlockEnd(y) /\ y.Start < FlockEnd(x)

\* list.PushBack(v) in its place.
InsertLast(flockList, v, mark) == Append(flockList, v)

\* list.InsertBefore(v, mark): nothing if mark is not an element of the list.
InsertBefore(flockList, v, mark) ==
    IF \E i \in 1..Len(flockList) : flockList[i] = mark
    THEN LET at == CHOOSE i \in 1..Len(flockList) :
                      /\ flockList[i] = mark
                      /\ \A j \in 1..(i - 1) : flockList[j] # mark
         IN  SubSeq(flockList, 1, at - 1) \o <<v>> \o SubSeq(flockList, at, Len(flockList))
    ELSE flockList

\* list.Remove(e)
RemoveElm(flockList, e) ==
    IF \E i \in 1..Len(flockList) : flockList[i] = e
    THEN LET at == CHOOSE i \in 1..Len(flockList) :
                      /\ flockList[i] = e
                      /\ \A j \in 1..(i - 1) : flockList[j] # e
         IN  SubSeq(flockList, 1, at - 1) \o SubSeq(flockList, at + 1, Len(flockList))
    ELSE flockList

\* What a scan of the list ends with: what to do to the list (with which
\* element), and what Flock returns.
FlockResult(do, elm, out, err) == [do |-> do, elm |-> elm, out |-> out, err |-> err]

\* Lines 233-245: the scan of an unlock request, from element i on.
RECURSIVE UnlockScan(_, _, _)
UnlockScan(flockList, in, i) ==
    IF i > Len(flockList)
    THEN FlockResult("nothing", NoFlock, NoFlock, "NoDataError")
    ELSE IF /\ flockList[i].Pid = in.Pid
            /\ flockList[i].Start = in.Start
            /\ flockList[i].Len = in.Len
    THEN FlockResult("Remove", flockList[i], NoFlock, "nil")
    ELSE UnlockScan(flockList, in, i + 1)

\* The comparison of the two pointers.
SamePointer(elm, in) == FALSE

\* Line 282: reflect.DeepEqual(elm, inFlockStruct).
DeepEqual(elm, in) == elm = in

\* Lines 254-300: the scan of a lock request, from element i on.
RECURSIVE LockScan(_, _, _, _)
LockScan(flockList, in, i, insertElm) ==
    IF i > Len(flockList)
    THEN FlockResult(IF insertElm # NoFlock THEN "InsertBefore" ELSE "PushBack",
                     insertElm, in, "nil")
    ELSE LET elm == flockList[i]
             mark == IF insertElm = NoFlock /\ elm.Start >= in.Start
                     THEN elm ELSE insertElm
         IN  IF FlockEnd(elm) < in.Start
             THEN LockScan(flockList, in, i + 1, insertElm)
             ELSE IF elm.Start > FlockEnd(in)
             THEN FlockResult("InsertBefore", mark, in, "nil")
             ELSE IF DeepEqual(elm, in)
             THEN FlockResult("nothing", NoFlock, elm, "nil")
             ELSE IF elm.Type = "F_WRLCK" \/ in.Type = "F_WRLCK"
             THEN FlockResult("nothing", NoFlock, elm, "TryAgainError")
             ELSE LockScan(flockList, in, i + 1, mark)

FlockInode == Entry

\* The locals of Flock; before is the list at the call, unlocked the lock
\* that the thread's last call removed, if the request overlaps it.
FlockOp(in, flockList, unlocked) ==
    [op |-> "Flock", at |-> "locked", in |-> in, before |-> flockList,
     unlocked |-> unlocked,
     do |-> "nothing", elm |-> NoFlock, out |-> NoFlock, err |-> "nil"]

\* Lines 200-217: the inode's read lock, with its defer.
FlockCall(t, in) ==
    /\ fs[t].op = "none"
    /\ Len(vol.flockList) < MaxFlocks \/ in.Type = "F_UNLCK"
    /\ CommonLockEnter(t, LockIDOf(FlockInode), CallerID(t, 0), shared, FALSE)
    /\ fs' = [fs EXCEPT ![t] = FlockOp(in, vol.flockList, NoFlock)]
    /\ UNCHANGED vol

\* The same thread's next call, after the one that returned.
FlockAgain(t, in) ==
    /\ fs[t].op = "Flock"
    /\ fs[t].at = "returned"
    /\ pc[t] = "idle"
    /\ Len(vol.flockList) < MaxFlocks \/ in.Type = "F_UNLCK"
    /\ CommonLockEnter(t, LockIDOf(FlockInode), CallerID(t, 0), shared, FALSE)
    /\ fs' = [fs EXCEPT ![t] = FlockOp(in, vol.flockList,
                  IF fs[t].do = "Remove" /\ in.Type # "F_UNLCK" /\ Overlap(in, fs[t].elm)
                  THEN fs[t].elm ELSE NoFlock)]
    /\ UNCHANGED vol

\* Lines 228-293: getFileLockList (the volume's mutex is released when it
\* returns, lines 187-188) and the scan of the list.
FlockScan(t) ==
    /\ fs[t].op = "Flock"
    /\ fs[t].at = "locked"
    /\ pc[t] = "idle"
    /\ LET found == IF fs[t].in.Type = "F_UNLCK"
                    THEN UnlockScan(vol.flockList, fs[t].in, 1)
                    ELSE LockScan(vol.flockList, fs[t].in, 1, NoFlock)
       IN  fs' = [fs EXCEPT ![t].do = found.do, ![t].elm = found.elm,
                            ![t].out = found.out, ![t].err = found.err,
                            ![t].at = "scanned"]
    /\ UNCHANGED <<llmVars, vol>>

\* Lines 238, 277 and 294-299: the Remove, InsertBefore or PushBack the scan
\* ended with.
FlockApply(t) ==
    /\ fs[t].op = "Flock"
    /\ fs[t].at = "scanned"
    /\ vol' = [vol EXCEPT !.flockList =
                  IF fs[t].do = "Remove" THEN RemoveElm(@, fs[t].elm)
                  ELSE IF fs[t].do = "InsertBefore" THEN InsertBefore(@, fs[t].in, fs[t].elm)
                  ELSE IF fs[t].do = "PushBack" THEN Append(@, fs[t].in)
                  ELSE @]
    /\ fs' = [fs EXCEPT ![t].at = "defer"]
    /\ UNCHANGED llmVars

\* Line 217: the deferred inodeLock.Unlock().
FlockDefer(t) ==
    /\ fs[t].op = "Flock"
    /\ fs[t].at = "defer"
    /\ UnlockEnter(t, LockIDOf(FlockInode), CallerID(t, 0))
    /\ fs' = [fs EXCEPT ![t].at = "returned"]
    /\ UNCHANGED vol

\* One thread, any sequence of calls.
Flockers == 1..1

FlockInit ==
    /\ LlmInit
    /\ vol = FlockVolume

FlockNext ==
    /\ ~Aborted
    /\ \E t \in Flockers :
          \/ \E in \in FlockStructs : FlockCall(t, in)
          \/ \E in \in FlockStructs : FlockAgain(t, in)
          \/ FlockScan(t)
          \/ FlockApply(t)
          \/ FlockDefer(t)
          \/ CommonLockRequest(t)
          \/ UnlockRelease(t)

FlockSpec == FlockInit /\ [][FlockNext]_vars

\* Two threads, each a pid with one call, on a list that is empty or has one
\* read lock.
FlockRaceInit ==
    /\ LlmInit
    /\ vol \in {FlockVolume,
                [FlockVolume EXCEPT !.flockList =
                    <<[Type |-> "F_RDLCK", Pid |-> 1, Start |-> 1, Len |-> 1]>>]}

FlockRaceNext ==
    /\ ~Aborted
    /\ \E t \in Clients :
          \/ \E in \in FlockStructs : in.Pid = t /\ FlockCall(t, in)
          \/ FlockScan(t)
          \/ FlockApply(t)
          \/ FlockDefer(t)
          \/ CommonLockRequest(t)
          \/ UnlockRelease(t)

FlockRaceSpec == FlockRaceInit /\ [][FlockRaceNext]_vars

\* Two overlapping locks of which at least one is a write lock.
Conflict(x, y) ==
    /\ x # y
    /\ Overlap(x, y)
    /\ x.Type = "F_WRLCK" \/ y.Type = "F_WRLCK"

\* The locks of the list that conflict with the request.
Conflicts(flockList, in) ==
    {i \in 1..Len(flockList) : Conflict(in, flockList[i])}

\* The call has completed.
Flocked(t) == fs[t].op = "Flock" /\ fs[t].at = "returned"

\* C24: the list never has two overlapping locks of which one is a write lock,
\* and a request that overlaps such a lock of the list returns TryAgain with
\* the conflicting lock and leaves the list unchanged.
FlockExclusion ==
    /\ \A i, j \in 1..Len(vol.flockList) :
          i # j => ~ /\ Overlap(vol.flockList[i], vol.flockList[j])
                     /\ \/ vol.flockList[i].Type = "F_WRLCK"
                        \/ vol.flockList[j].Type = "F_WRLCK"
    /\ \A t \in Flockers :
          (/\ Flocked(t)
           /\ fs[t].in.Type # "F_UNLCK"
           /\ Conflicts(fs[t].before, fs[t].in) # {}) =>
              /\ fs[t].err = "TryAgainError"
              /\ \E i \in Conflicts(fs[t].before, fs[t].in) : fs[t].out = fs[t].before[i]
              /\ vol.flockList = fs[t].before

\* C25: two concurrent write-lock requests of different pids on overlapping
\* ranges never both succeed.
FlockMutualExclusion ==
    \A t, u \in Clients :
        (/\ t # u
         /\ Flocked(t) /\ Flocked(u)
         /\ fs[t].in.Type = "F_WRLCK" /\ fs[u].in.Type = "F_WRLCK"
         /\ fs[t].in.Pid # fs[u].in.Pid
         /\ Overlap(fs[t].in, fs[u].in)) =>
            ~(fs[t].err = "nil" /\ fs[u].err = "nil")

FlockUnlock ==
    \A t \in Flockers :
        /\ (Flocked(t) /\ fs[t].in.Type = "F_UNLCK") =>
              LET matching == {i \in 1..Len(fs[t].before) :
                                  /\ fs[t].before[i].Pid = fs[t].in.Pid
                                  /\ fs[t].before[i].Start = fs[t].in.Start
                                  /\ fs[t].before[i].Len = fs[t].in.Len}
              IN  IF matching = {}
                  THEN fs[t].err = "NoDataError" /\ vol.flockList = fs[t].before
                  ELSE /\ fs[t].err = "nil"
                       /\ \E i \in matching :
                             vol.flockList = SubSeq(fs[t].before, 1, i - 1)
                                             \o SubSeq(fs[t].before, i + 1, Len(fs[t].before))
        /\ (/\ Flocked(t)
            /\ fs[t].in.Type # "F_UNLCK"
            /\ fs[t].unlocked # NoFlock
            /\ Conflict(fs[t].in, fs[t].unlocked)
            /\ Conflicts(fs[t].before, fs[t].in) = {}) =>
              fs[t].err = "nil"

\* ------------------------------------------------------- SetXAttr, GetXAttr
\* One inode with one extended attribute, a stream of the inode.
XAttrInode == Entry

XAttrVolumes ==
    {[mounted |-> TRUE, access |-> [k \in Keys |-> "ok"],
      streams |-> [n \in {XAttrInode} |-> stream]] :
        stream \in {NoStream} \cup {Stream(d) : d \in Metadata \ {<<>>}}}

\* Lines 2176-2177.
xattr_create == 1
xattr_replace == 2

\* The flags of the calls: 0, the two above and one that is none of them.
XAttrFlags == {0, xattr_create, xattr_replace, xattr_create + xattr_replace}

\* Lines 2180-2188: the inode's write lock, by a caller-id of its own, with
\* its defer; before is the stream at the call.
SetXAttrCall(t, value, flags) ==
    /\ fs[t].op = "none"
    /\ CommonLockEnter(t, LockIDOf(XAttrInode), CallerID(t, 0), exclusive, FALSE)
    /\ fs' = [fs EXCEPT ![t] =
                [op |-> "SetXAttr", at |-> "locked", value |-> value, flags |-> flags,
                 before |-> vol.streams[XAttrInode], got |-> NoStream, err |-> "nil"]]
    /\ UNCHANGED vol

\* Lines 2199-2215: the switch on flags. CREATE and REPLACE call mS.GetXAttr,
\* which asks for the inode's read lock by a caller-id of its own (lines
\* 393-401); any other flag but 0 is invalid.
SetXAttrSwitch(t) ==
    /\ fs[t].op = "SetXAttr"
    /\ fs[t].at = "locked"
    /\ IF fs[t].flags = 0
       THEN /\ pc[t] = "idle"
            /\ fs' = [fs EXCEPT ![t].at = "put"]
            /\ UNCHANGED llmVars
       ELSE IF fs[t].flags \in {xattr_create, xattr_replace}
       THEN /\ CommonLockEnter(t, LockIDOf(XAttrInode), CallerID(t, 1), shared, FALSE)
            /\ fs' = [fs EXCEPT ![t].at = "GetXAttr"]
       ELSE /\ pc[t] = "idle"
            /\ fs' = [fs EXCEPT ![t].err = "InvalidArgError", ![t].at = "defer"]
            /\ UNCHANGED llmVars
    /\ UNCHANGED vol

\* Lines 393-401: GetXAttr called by itself; it asks for the read lock.
GetXAttrCall(t) ==
    /\ fs[t].op = "none"
    /\ CommonLockEnter(t, LockIDOf(XAttrInode), CallerID(t, 1), shared, FALSE)
    /\ fs' = [fs EXCEPT ![t] =
                [op |-> "GetXAttr", at |-> "GetXAttr", value |-> <<>>, flags |-> 0,
                 before |-> vol.streams[XAttrInode], got |-> NoStream, err |-> "nil"]]
    /\ UNCHANGED vol

\* Lines 402-421: with the read lock, GetStream; the deferred Unlock. The
\* stream that is not there is the error StreamNotFound.
GetXAttrRead(t) ==
    /\ fs[t].op \in {"GetXAttr", "SetXAttr"}
    /\ fs[t].at = "GetXAttr"
    /\ UnlockEnter(t, LockIDOf(XAttrInode), CallerID(t, 1))
    /\ fs' = [fs EXCEPT ![t].got = vol.streams[XAttrInode],
                        ![t].err = IF fs[t].op = "GetXAttr" /\ ~vol.streams[XAttrInode].found
                                   THEN "StreamNotFound" ELSE "nil",
                        ![t].at = IF fs[t].op = "GetXAttr" THEN "returned" ELSE "got"]
    /\ UNCHANGED vol

\* Lines 2203-2222: after GetXAttr, CREATE fails on an attribute that is
\* there and REPLACE on one that is not; otherwise PutStream of the value.
SetXAttrPut(t) ==
    /\ fs[t].op = "SetXAttr"
    /\ fs[t].at \in {"put", "got"}
    /\ pc[t] = "idle"
    /\ IF fs[t].at = "got" /\ fs[t].flags = xattr_create /\ fs[t].got.found
       THEN /\ fs' = [fs EXCEPT ![t].err = "FileExistsError", ![t].at = "defer"]
            /\ vol' = vol
       ELSE IF fs[t].at = "got" /\ fs[t].flags = xattr_replace /\ ~fs[t].got.found
       THEN /\ fs' = [fs EXCEPT ![t].err = "StreamNotFound", ![t].at = "defer"]
            /\ vol' = vol
       ELSE /\ fs' = [fs EXCEPT ![t].at = "defer"]
            /\ vol' = PutStream(vol, XAttrInode, fs[t].value)
    /\ UNCHANGED llmVars

\* Line 2188: the deferred inodeLock.Unlock().
SetXAttrDefer(t) ==
    /\ fs[t].op = "SetXAttr"
    /\ fs[t].at = "defer"
    /\ UnlockEnter(t, LockIDOf(XAttrInode), CallerID(t, 0))
    /\ fs' = [fs EXCEPT ![t].at = "returned"]
    /\ UNCHANGED vol

XAttrInit ==
    /\ LlmInit
    /\ vol \in XAttrVolumes

XAttrNext ==
    /\ ~Aborted
    /\ \E t \in Clients :
          \/ \E value \in Metadata \ {<<>>}, flags \in XAttrFlags :
                SetXAttrCall(t, value, flags)
          \/ SetXAttrSwitch(t)
          \/ GetXAttrCall(t)
          \/ GetXAttrRead(t)
          \/ SetXAttrPut(t)
          \/ SetXAttrDefer(t)
          \/ LockStep(t)

\* Every step that can be taken is taken in the end: the threads run.
XAttrSpec == XAttrInit /\ [][XAttrNext]_vars /\ WF_vars(XAttrNext)

\* C29: SetXAttr always returns; CREATE on an attribute that is there returns
\* Exists and REPLACE on one that is not returns NotFound, the attribute as it
\* was; a flag other than 0, CREATE and REPLACE is invalid and nothing is
\* stored; in all other cases the value is stored.
SetXAttrFlagSemantics ==
    /\ [](\A t \in Clients :
            (fs[t].op = "SetXAttr" /\ fs[t].at = "defer") =>
                IF fs[t].flags = xattr_create /\ fs[t].before.found
                THEN fs[t].err = "FileExistsError"
                ELSE IF fs[t].flags = xattr_replace /\ ~fs[t].before.found
                THEN fs[t].err = "StreamNotFound"
                ELSE IF fs[t].flags \notin {0, xattr_create, xattr_replace}
                THEN fs[t].err = "InvalidArgError"
                ELSE fs[t].err = "nil" /\ vol.streams[XAttrInode] = Stream(fs[t].value))
    /\ \A t \in Clients : (fs[t].op = "SetXAttr") ~> Returned(t)

\* ----------------------------------------------------------------- Unlink
\* The root directory with the names f and g, and one inode they may refer
\* to, which may have one more link in a directory that is not modelled.
Unlinked == Entry

UnlinkVolumes ==
    {[mounted |-> TRUE, access |-> [k \in Keys |-> "ok"],
      inodes |-> [n \in {RootDir, Unlinked} |-> IF n = RootDir THEN "DirType" ELSE type],
      dirEntries |-> [dn \in {RootDir} \X BaseNames |->
                        IF dn[2] \in names THEN Unlinked ELSE NoInode],
      linkCount |-> [n \in {Unlinked} |-> Cardinality(names) + elsewhere]] :
        type \in {"FileType", "SymlinkType", "DirType"},
        names \in (SUBSET BaseNames) \ {{}},
        elsewhere \in 0..1}

\* VolumeHandle.Unlink: the entry is removed and its inode has one link less.
UnlinkEntry(v, dir, basename) ==
    LET n == v.dirEntries[<<dir, basename>>]
    IN  [v EXCEPT !.dirEntries[<<dir, basename>>] = NoInode,
                  !.linkCount[n] = @ - 1]

\* Lines 2302-2312: the directory's write lock, by a new caller-id, with its
\* defer.
UnlinkCall(t, basename) ==
    /\ fs[t].op = "none"
    /\ CommonLockEnter(t, LockIDOf(RootDir), CallerID(t, 0), exclusive, FALSE)
    /\ fs' = [fs EXCEPT ![t] =
                [op |-> "Unlink", at |-> "dir", inodeNumber |-> RootDir,
                 basename |-> basename, basenameInodeNumber |-> NoInode, err |-> "nil"]]
    /\ UNCHANGED vol

\* Lines 2314-2336: Lookup of the name, and the write lock of its inode by
\* the same caller-id, with its defer.
UnlinkLookup(t) ==
    /\ fs[t].op = "Unlink"
    /\ fs[t].at = "dir"
    /\ LET basenameInodeNumber == vol.dirEntries[<<fs[t].inodeNumber, fs[t].basename>>]
       IN  IF basenameInodeNumber = NoInode
           THEN /\ pc[t] = "idle"
                /\ fs' = [fs EXCEPT ![t].err = "NotFoundError", ![t].at = "defer dir"]
                /\ UNCHANGED llmVars
           ELSE /\ CommonLockEnter(t, LockIDOf(basenameInodeNumber), CallerID(t, 0),
                                   exclusive, FALSE)
                /\ fs' = [fs EXCEPT ![t].basenameInodeNumber = basenameInodeNumber,
                                    ![t].at = "basename"]
    /\ UNCHANGED vol

\* The same lines with the Destroy whatever the link count.
UnlinkRemoveAndDestroy(t) ==
    /\ fs[t].op = "Unlink"
    /\ fs[t].at = "basename"
    /\ pc[t] = "idle"
    /\ IF vol.inodes[fs[t].basenameInodeNumber] = "DirType"
       THEN /\ fs' = [fs EXCEPT ![t].err = "IsDirError", ![t].at = "defer basename"]
            /\ vol' = vol
       ELSE /\ fs' = [fs EXCEPT ![t].at = "defer basename"]
            /\ vol' = Destroy(UnlinkEntry(vol, fs[t].inodeNumber, fs[t].basename),
                              fs[t].basenameInodeNumber)
    /\ UNCHANGED llmVars

\* Lines 2338-2364: a directory is refused; else VolumeHandle.Unlink, and
\* Destroy if GetLinkCount is 0.
UnlinkRemove(t) ==
    /\ fs[t].op = "Unlink"
    /\ fs[t].at = "basename"
    /\ pc[t] = "idle"
    /\ IF vol.inodes[fs[t].basenameInodeNumber] = "DirType"
       THEN /\ fs' = [fs EXCEPT ![t].err = "IsDirError", ![t].at = "defer basename"]
            /\ vol' = vol
       ELSE LET removed == UnlinkEntry(vol, fs[t].inodeNumber, fs[t].basename)
            IN  /\ fs' = [fs EXCEPT ![t].at = "defer basename"]
                /\ vol' = IF removed.linkCount[fs[t].basenameInodeNumber] = 0
                          THEN Destroy(removed, fs[t].basenameInodeNumber)
                          ELSE removed
    /\ UNCHANGED llmVars

\* Line 2336: the return runs basenameInodeLock.Unlock() first.
UnlinkDeferBasename(t) ==
    /\ fs[t].op = "Unlink"
    /\ fs[t].at = "defer basename"
    /\ UnlockEnter(t, LockIDOf(fs[t].basenameInodeNumber), CallerID(t, 0))
    /\ fs' = [fs EXCEPT ![t].at = "defer dir"]
    /\ UNCHANGED vol

\* Line 2312: and then inodeLock.Unlock().
UnlinkDeferDir(t) ==
    /\ fs[t].op = "Unlink"
    /\ fs[t].at = "defer dir"
    /\ UnlockEnter(t, LockIDOf(fs[t].inodeNumber), CallerID(t, 0))
    /\ fs' = [fs EXCEPT ![t].at = "returned"]
    /\ UNCHANGED vol

UnlinkInit ==
    /\ LlmInit
    /\ vol \in UnlinkVolumes

UnlinkNext ==
    /\ ~Aborted
    /\ \E t \in Clients :
          \/ \E basename \in BaseNames : UnlinkCall(t, basename)
          \/ UnlinkLookup(t)
          \/ UnlinkRemove(t)
          \/ UnlinkDeferBasename(t)
          \/ UnlinkDeferDir(t)
          \/ LockStep(t)

UnlinkSpec == UnlinkInit /\ [][UnlinkNext]_vars

CoalesceDirNames == {"a", "b"}

\* The inode of the root's entry dirName, and of that directory's entry "f".
CoalesceDir(dirName) == IF dirName = "a" THEN RootDir + 1 ELSE RootDir + 2
CoalesceFile(dirInodeNumber) == dirInodeNumber + 2

CoalesceInodes == RootDir..CoalesceFile(CoalesceDir("b"))

\* "a" is a directory, a file or missing; "b" is a directory; "a/f" is a
\* file; "b/f" is a file, a directory or missing; one of "a" and "b/f" is what
\* a Coalesce wants it to be.
CoalesceVolumes ==
    {[mounted |-> TRUE,
      inodes |-> [n \in CoalesceInodes |->
                    IF n = CoalesceDir("a") THEN types[1]
                    ELSE IF n = CoalesceFile(CoalesceDir("b")) THEN types[2]
                    ELSE IF n = CoalesceFile(CoalesceDir("a")) THEN "FileType"
                    ELSE "DirType"]] :
        types \in {<<"DirType", "FileType">>, <<"DirType", "DirType">>,
                   <<"DirType", "none">>, <<"FileType", "FileType">>,
                   <<"none", "FileType">>}}

\* VolumeHandle.Lookup in the root and in a directory; NoInode for NotFound.
CoalesceLookup(v, n) == IF v.inodes[n] = "none" THEN NoInode ELSE n

\* The locals of MiddlewareCoalesce and of the resolvePath it calls. elements
\* are the directory names of elementPaths still to come, name the path being
\* resolved; heldLocks has NoInode for a nil lock; a lock variable is TRUE
\* when it is not nil; got is what the last getLock returned.
CoalesceOp(destDirName, elements) ==
    [op |-> "MiddlewareCoalesce", at |-> "root", destDirName |-> destDirName,
     elements |-> elements, phase |-> "dest", name |-> destDirName,
     heldLocks |-> <<>>, want |-> "dir", got |-> FALSE,
     dirInodeLock |-> FALSE, cursorInodeNumber |-> NoInode, inodeLock |-> FALSE,
     fileInodeNumber |-> NoInode, err |-> "nil", coalesced |-> FALSE]

\* The call with the root directory's lock taken shared.
CoalesceCallShared(t, destDirName, elements) ==
    /\ fs[t].op = "none"
    /\ IF \E i \in 1..Len(elements) : elements[i] = ""
       THEN /\ pc[t] = "idle"
            /\ fs' = [fs EXCEPT ![t] =
                 [CoalesceOp(destDirName, elements) EXCEPT !.err = "Error",
                                                          !.at = "returned"]]
            /\ UNCHANGED llmVars
       ELSE /\ CommonLockEnter(t, RootDir, CallerID(t, 0), shared, FALSE)
            /\ fs' = [fs EXCEPT ![t] = CoalesceOp(destDirName, elements)]
    /\ UNCHANGED vol

\* Lines 650-703: an element path in the root directory (dirName == "") is an
\* error; else the caller-id and getWriteLock(inode.RootDirInodeNumber, callerID).
CoalesceCall(t, destDirName, elements) ==
    /\ fs[t].op = "none"
    /\ IF \E i \in 1..Len(elements) : elements[i] = ""
       THEN /\ pc[t] = "idle"
            /\ fs' = [fs EXCEPT ![t] =
                 [CoalesceOp(destDirName, elements) EXCEPT !.err = "Error",
                                                          !.at = "returned"]]
            /\ UNCHANGED llmVars
       ELSE /\ CommonLockEnter(t, RootDir, CallerID(t, 0), exclusive, FALSE)
            /\ fs' = [fs EXCEPT ![t] = CoalesceOp(destDirName, elements)]
    /\ UNCHANGED vol

\* Lines 707-709 and 2477-2494: the root's lock goes to heldLocks;
\* resolvePathForWrite(destDirName, callerID), which starts with getLock on
\* the root directory: does the caller-id hold it?
CoalesceDest(t) ==
    /\ fs[t].op = "MiddlewareCoalesce"
    /\ fs[t].at = "root"
    /\ IsLockHeldEnter(t, RootDir, CallerID(t, 0), WRITELOCK)
    /\ fs' = [fs EXCEPT ![t].heldLocks = <<RootDir>>, ![t].want = "dir",
                        ![t].at = "ensure"]
    /\ UNCHANGED vol

\* ensureWriteLock, and IsWriteHeld() before WriteLock() (lines 745-746): a
\* lock the caller-id holds is not taken again.
CoalesceEnsure(t) ==
    /\ fs[t].op = "MiddlewareCoalesce"
    /\ fs[t].at = "ensure"
    /\ pc[t] = "idle"
    /\ LET k == CASE fs[t].want = "dir" -> RootDir
                  [] fs[t].want = "cursor" -> fs[t].cursorInodeNumber
                  [] OTHER -> fs[t].fileInodeNumber
       IN  IF ret[t] = "held"
           THEN /\ fs' = [fs EXCEPT ![t].at = "got", ![t].got = FALSE]
                /\ UNCHANGED llmVars
           ELSE /\ CommonLockEnter(t, k, CallerID(t, 0), exclusive, FALSE)
                /\ fs' = [fs EXCEPT ![t].at = "got", ![t].got = TRUE]
    /\ UNCHANGED vol

\* Lines 2494-2527: dirInodeLock; Lookup of the one segment in the root, whose
\* error is returned; getLock on what Lookup found.
CoalesceDirLocked(t) ==
    /\ fs[t].op = "MiddlewareCoalesce"
    /\ fs[t].at = "got"
    /\ fs[t].want = "dir"
    /\ pc[t] = "idle"
    /\ LET f == fs[t]
           cursorInodeNumber == CoalesceLookup(vol, CoalesceDir(f.name))
       IN  IF cursorInodeNumber = NoInode
           THEN /\ fs' = [fs EXCEPT ![t] =
                     [f EXCEPT !.dirInodeLock = f.got, !.err = "NotFoundError",
                               !.at = "resolve defer"]]
                /\ UNCHANGED llmVars
           ELSE /\ IsLockHeldEnter(t, cursorInodeNumber, CallerID(t, 0), WRITELOCK)
                /\ fs' = [fs EXCEPT ![t] =
                     [f EXCEPT !.dirInodeLock = f.got,
                               !.cursorInodeNumber = cursorInodeNumber,
                               !.want = "cursor", !.at = "ensure"]]
    /\ UNCHANGED vol

\* Lines 2527-2582 and 2498-2507: cursorInodeLock; GetType; the last segment's
\* inode is returned with its lock; the deferred dirInodeLock.Unlock() unless
\* nil.
CoalesceCursorLocked(t) ==
    /\ fs[t].op = "MiddlewareCoalesce"
    /\ fs[t].at = "got"
    /\ fs[t].want = "cursor"
    /\ IF fs[t].dirInodeLock
       THEN UnlockEnter(t, RootDir, CallerID(t, 0))
       ELSE pc[t] = "idle" /\ UNCHANGED llmVars
    /\ fs' = [fs EXCEPT ![t].inodeLock = fs[t].got, ![t].dirInodeLock = FALSE,
                        ![t].at = "resolved"]
    /\ UNCHANGED vol

\* Lines 2523-2525, 2498-2502 and 710-712, 721-724: Lookup has failed; the
\* deferred dirInodeLock.Unlock() unless nil; Coalesce returns the error.
CoalesceResolveFailed(t) ==
    /\ fs[t].op = "MiddlewareCoalesce"
    /\ fs[t].at = "resolve defer"
    /\ IF fs[t].dirInodeLock
       THEN UnlockEnter(t, RootDir, CallerID(t, 0))
       ELSE pc[t] = "idle" /\ UNCHANGED llmVars
    /\ fs' = [fs EXCEPT ![t].dirInodeLock = FALSE, ![t].at = "defer"]
    /\ UNCHANGED vol

\* Lines 713-717 and 725-745: the lock goes to heldLocks (the destination's
\* also when nil); what is no directory is NotDirError; for an element, Lookup
\* of the file name, initInodeLock and IsWriteHeld().
CoalesceResolved(t) ==
    /\ fs[t].op = "MiddlewareCoalesce"
    /\ fs[t].at = "resolved"
    /\ pc[t] = "idle"
    /\ LET f == fs[t]
           heldLocks ==
               IF f.inodeLock THEN Append(f.heldLocks, f.cursorInodeNumber)
               ELSE IF f.phase = "dest" THEN Append(f.heldLocks, NoInode)
               ELSE f.heldLocks
           fileInodeNumber == CoalesceLookup(vol, CoalesceFile(f.cursorInodeNumber))
       IN  IF vol.inodes[f.cursorInodeNumber] # "DirType"
           THEN /\ fs' = [fs EXCEPT ![t] =
                     [f EXCEPT !.heldLocks = heldLocks, !.err = "NotDirError",
                               !.at = "defer"]]
                /\ UNCHANGED llmVars
           ELSE IF f.phase = "dest"
           THEN /\ fs' = [fs EXCEPT ![t] =
                     [f EXCEPT !.heldLocks = heldLocks, !.at = "next"]]
                /\ UNCHANGED llmVars
           ELSE IF fileInodeNumber = NoInode
           THEN /\ fs' = [fs EXCEPT ![t] =
                     [f EXCEPT !.heldLocks = heldLocks, !.err = "NotFoundError",
                               !.at = "defer"]]
                /\ UNCHANGED llmVars
           ELSE /\ IsLockHeldEnter(t, fileInodeNumber, CallerID(t, 0), WRITELOCK)
                /\ fs' = [fs EXCEPT ![t] =
                     [f EXCEPT !.heldLocks = heldLocks,
                               !.fileInodeNumber = fileInodeNumber,
                               !.want = "file", !.at = "ensure"]]
    /\ UNCHANGED vol

\* Lines 746-768: the file's lock goes to heldLocks if it was taken;
\* GetMetadata; what is no file is NotFileError; the element is done.
CoalesceFileLocked(t) ==
    /\ fs[t].op = "MiddlewareCoalesce"
    /\ fs[t].at = "got"
    /\ fs[t].want = "file"
    /\ pc[t] = "idle"
    /\ LET f == fs[t]
           heldLocks == IF f.got THEN Append(f.heldLocks, f.fileInodeNumber)
                        ELSE f.heldLocks
       IN  fs' = [fs EXCEPT ![t] =
             IF vol.inodes[f.fileInodeNumber] # "FileType"
             THEN [f EXCEPT !.heldLocks = heldLocks, !.err = "NotFileError",
                            !.at = "defer"]
             ELSE [f EXCEPT !.heldLocks = heldLocks, !.elements = Tail(@),
                            !.at = "next"]]
    /\ UNCHANGED <<vol, llmVars>>

\* Lines 719-720 and 772-775: resolvePathForWrite(entry.dirName, callerID) of
\* the next element; after the last one mS.Coalesce and the return.
CoalesceElement(t) ==
    /\ fs[t].op = "MiddlewareCoalesce"
    /\ fs[t].at = "next"
    /\ IF fs[t].elements = <<>>
       THEN /\ pc[t] = "idle"
            /\ fs' = [fs EXCEPT ![t].coalesced = TRUE, ![t].at = "defer"]
            /\ UNCHANGED llmVars
       ELSE /\ IsLockHeldEnter(t, RootDir, CallerID(t, 0), WRITELOCK)
            /\ fs' = [fs EXCEPT ![t].phase = "element",
                                ![t].name = Head(fs[t].elements),
                                ![t].want = "dir", ![t].at = "ensure"]
    /\ UNCHANGED vol

\* Lines 653-659: the deferred function unlocks heldLocks from the first on,
\* skipping nil; then Coalesce has returned.
CoalesceDefer(t) ==
    /\ fs[t].op = "MiddlewareCoalesce"
    /\ fs[t].at = "defer"
    /\ IF fs[t].heldLocks = <<>>
       THEN /\ pc[t] = "idle"
            /\ fs' = [fs EXCEPT ![t].at = "returned"]
            /\ UNCHANGED llmVars
       ELSE /\ IF Head(fs[t].heldLocks) = NoInode
               THEN pc[t] = "idle" /\ UNCHANGED llmVars
               ELSE UnlockEnter(t, Head(fs[t].heldLocks), CallerID(t, 0))
            /\ fs' = [fs EXCEPT ![t].heldLocks = Tail(@)]
    /\ UNCHANGED vol

\* The element paths of a call: one in each directory, in either order, one
\* in "b", or one in the root directory.
CoalesceElements == {<<"a", "b">>, <<"b", "a">>, <<"b">>, <<"">>}

\* As LlmInit, with a lock id for each inode of the volume.
CoalesceInit ==
    /\ localLockMap = [k \in CoalesceInodes |-> NoTrack]
    /\ tracks = [n \in CoalesceInodes \X {0, 1} |-> FreeTrack]
    /\ globalsMutex = NoThread
    /\ pc = [t \in Threads |-> "idle"]
    /\ req = [t \in Threads |-> NoReq]
    /\ myTrack = [t \in Threads |-> NoTrack]
    /\ wakeUp = [t \in Threads |-> FALSE]
    /\ ret = [t \in Threads |-> "none"]
    /\ granted = {}
    /\ mustFollow = [t \in Threads |-> {}]
    /\ fs = [t \in Threads |-> NoOp]
    /\ vol \in CoalesceVolumes

CoalesceNext ==
    /\ ~Aborted
    /\ \E t \in Clients :
          \/ \E destDirName \in CoalesceDirNames, elements \in CoalesceElements :
                CoalesceCall(t, destDirName, elements)
          \/ CoalesceDest(t)
          \/ CoalesceEnsure(t)
          \/ CoalesceDirLocked(t)
          \/ CoalesceCursorLocked(t)
          \/ CoalesceResolveFailed(t)
          \/ CoalesceResolved(t)
          \/ CoalesceFileLocked(t)
          \/ CoalesceElement(t)
          \/ CoalesceDefer(t)
          \/ LockStep(t)
          \/ IsLockHeldAnswer(t)

\* The clients are scheduled as long as one of them has a step to take.
CoalesceSpec == CoalesceInit /\ [][CoalesceNext]_vars /\ WF_vars(CoalesceNext)

\* Thread t's Coalesce is at work under the root's lock: it was granted the
\* lock and has not come to its return.
Coalescing(t) ==
    /\ fs[t].op = "MiddlewareCoalesce"
    /\ fs[t].at \notin {"defer", "returned"}
    /\ ~(fs[t].at = "root" /\ pc[t] # "idle")

UnlockOp(held) == [op |-> "Unlock", at |-> IF held THEN "held" ELSE "not held"]

UnlockAny(t) ==
    /\ UnlockEnter(t, ContendedKey, t)
    /\ fs' = [fs EXCEPT ![t] = UnlockOp(\E g \in Holds(t) : g[2] = ContendedKey)]
    /\ UNCHANGED vol

UnlockAnyNext ==
    /\ ~Aborted
    /\ \E t \in Threads :
          AcquireOn(t, ContendedKey) \/ UnlockAny(t) \/ LockStep(t)

UnlockAnySpec == Init /\ [][UnlockAnyNext]_vars

\* C32: an Unlock of a lock id that has no track in the map, and an Unlock by
\* a caller-id that does not hold the lock, panic; no track's owner counter
\* goes below zero or wraps around.
ReleaseOfUnheldAborts ==
    /\ [][\A t \in Threads :
            /\ (pc[t] = "idle" /\ pc'[t] # "idle" /\ req'[t].call = "unlock"
                  /\ localLockMap[req'[t].LockID] = NoTrack) => pc'[t] = "panic"
            /\ (pc[t] = "ul_track" /\ pc'[t] # "ul_track" /\ fs[t].at = "not held")
                  => pc'[t] = "panic"]_vars
    /\ [](\A n \in DOMAIN tracks : tracks[n].owners \in 0..NumThreads)

\* C33: the track a thread has looked up, queues its request on, waits on or
\* releases is the track the map has for the lock id; every caller granted a
\* lock is in the owner list of the track mapped for it, and every request
\* that waits is in that track's queue; no thread waits on its request's
\* condition variable with globals' mutex.
LockCoupling ==
    /\ \A t \in Threads :
          /\ myTrack[t] # NoTrack => localLockMap[req[t].LockID] = myTrack[t]
          /\ pc[t] \in {"cl_track", "cl_wait", "ul_track", "ih_track"}
                => myTrack[t] # NoTrack
          /\ (pc[t] = "cl_wait" /\ ~wakeUp[t]) =>
                \E i \in 1..Len(tracks[localLockMap[req[t].LockID]].waitReqQ) :
                    tracks[localLockMap[req[t].LockID]].waitReqQ[i].thread = t
          /\ pc[t] = "cl_wait" => globalsMutex # t
    /\ \A g \in granted :
          /\ localLockMap[g[2]] # NoTrack
          /\ g[1] \in Listed(tracks[localLockMap[g[2]]])

\* The one owner of a track has started its unlock and found the track in the
\* map, with globals' mutex still its own; a request waits in the track's
\* queue and keeps the track in the map.
LockCouplingWitness ==
    \E t \in Threads, u \in Threads :
        /\ pc[t] = "cl_wait" /\ ~wakeUp[t]
        /\ pc[u] = "ul_track" /\ myTrack[u] = myTrack[t]
        /\ globalsMutex = u
        /\ tracks[myTrack[u]].owners = 1
        /\ tracks[myTrack[u]].waiters = 1

\* s is what is left of r when requests have been taken from its head.
IsSuffix(s, r) ==
    /\ Len(s) <= Len(r)
    /\ s = SubSeq(r, Len(r) - Len(s) + 1, Len(r))

\* The callers whose requests are in a queue.
Queued(waitReqQ) == {waitReqQ[i].LockCallerID : i \in 1..Len(waitReqQ)}

\* C34: a step takes requests from the head of a track's queue only, after it
\* has put its own request at the back, and the requests it takes are the ones
\* it grants, so no request is granted while one queued before it waits; and
\* no pass stops early: the request left at the head of a queue is one that
\* cannot be granted, a Write on a lock that is held or any on a lock held
\* exclusively.
GrantsFollowQueueOrder ==
    /\ [][\A n \in DOMAIN tracks :
            LET q == tracks[n].waitReqQ
                after == tracks'[n].waitReqQ
                arriving == {t \in Threads :
                               /\ pc[t] = "cl_track" /\ pc'[t] # "cl_track"
                               /\ myTrack[t] = n /\ ret'[t] # "TryAgain"}
                all == q \o [i \in 1..Cardinality(arriving) |->
                               LET t == CHOOSE u \in arriving : TRUE
                               IN  [requestedState |-> req[t].requestedState,
                                    LockCallerID |-> req[t].LockCallerID,
                                    thread |-> t]]
                new == {g[1] : g \in {h \in granted' \ granted : h[2] = n[1]}}
            IN  (tracks'[n] # tracks[n]) =>
                    /\ IsSuffix(after, all)
                    /\ Queued(all) \ Queued(after) = new]_vars
    /\ [](\A n \in DOMAIN tracks :
            tracks[n].waitReqQ # <<>> =>
                \/ tracks[n].state = exclusive
                \/ /\ Head(tracks[n].waitReqQ).requestedState = exclusive
                   /\ tracks[n].state = shared)

\* A pass has granted the reader at the head of the queue, which has not woken
\* up yet, and has stopped at the writer queued behind it.
GrantsFollowQueueOrderWitness ==
    \E t \in Threads, u \in Threads :
        /\ pc[t] = "cl_wait" /\ wakeUp[t] /\ req[t].requestedState = shared
        /\ pc[u] = "cl_wait" /\ ~wakeUp[u] /\ req[u].requestedState = exclusive
        /\ myTrack[t] = myTrack[u]
        /\ tracks[myTrack[t]].state = shared
        /\ tracks[myTrack[t]].owners = 1


\* ------------------------------------------- lock order of the filesystem

\* The thread waits on its request's Cond and nobody has signalled it.
Blocked(t) == pc[t] = "cl_wait" /\ ~wakeUp[t]

\* t waits for a lock that u holds.
WaitsFor(t, u) ==
    /\ Blocked(t)
    /\ \E g \in HoldsAny(u) : g[2] = req[t].LockID

\* The operation takes its locks along the tree: a Readdir of a directory, or
\* a Link, Unlink or Rmdir in the root on an inode below the root.
AlongTheTree(t) ==
    \/ fs[t].op \in ReaddirOps
    \/ fs[t].op \in TwoLockOps /\ fs[t].dir = RootDir /\ fs[t].other # RootDir

\* C35: the filesystem layer is deadlock-free: among operations that take
\* their locks along the tree (Readdir and ReaddirPlus, which read-lock the
\* entries, ".." among them, with the directory locked; Rmdir, Unlink and Link,
\* which lock a directory and then an inode below it), no two callers ever wait
\* each for a lock the other holds.
FsDeadlockFree ==
    \A t \in Clients : \A u \in Clients \ {t} :
        AlongTheTree(t) /\ AlongTheTree(u) => ~(WaitsFor(t, u) /\ WaitsFor(u, t))


\* C36: no operation re-enters a lock: no thread of the filesystem has a
\* blocking acquire under way (queued or about to queue, not a try) for a lock
\* that the request's own caller-id holds; so Link on a directory and a target
\* that are the same inode does not wait for itself.
NoLockReentered ==
    \A t \in Clients :
        pc[t] \in {"cl_track", "cl_wait"} /\ ~req[t].try
            => ~\E g \in granted : g[1] = req[t].LockCallerID /\ g[2] = req[t].LockID


\* ------------------------------- MiddlewarePutComplete on a failing Lookup

\* The volumes of PutVolumes, with and without a VolumeHandle.Lookup that
\* fails with an error that is not NotFoundError.
PutFaultVolumes ==
    {v @@ [lookupErr |-> e] : v \in PutVolumes, e \in {"nil", "IOError"}}

PutFaultInit ==
    /\ LlmInit
    /\ vol \in PutFaultVolumes

\* The thread is scheduled as long as it has a step to take.
PutFaultSpec == PutFaultInit /\ [][PutNext]_vars /\ WF_vars(PutNext)

\* C37: the walk of PutComplete ends on every outcome of Lookup: once a Lookup
\* of the walk has failed with an error other than NotFoundError, PutComplete
\* returns, with that error, with no inode created and with no lock held.
PutCompleteWalkBails ==
    \A t \in Putters :
        (fs[t].op = "MiddlewarePutComplete" /\ fs[t].at = "walk" /\ fs[t].err # "nil")
            ~> (Returned(t) /\ fs[t].err = PutLookupErr(vol) /\ HoldsAny(t) = {}
                  /\ \A n \in NewInodes : vol.inodes[n] = "free")


\* ------------------- two MiddlewarePutComplete under a missing directory

\* Two threads put one object each.
RacePutters == 1..2

\* The inode numbers the volume can give out: one file and one directory for
\* each putter.
RaceInodes == (NumKeys + 1)..(NumKeys + 2 * NumClients)

\* revSplitPath of "x/y" and of "x/z": the object of each putter.
RacePath(t) == IF t = 1 THEN <<"y", "x">> ELSE <<"z", "x">>

\* The root with the container "c" in it, and the container with or without
\* the directory "x".
RaceVolumes ==
    {[mounted |-> TRUE, access |-> [k \in Keys |-> "ok"],
      inodes |-> [n \in Keys \cup RaceInodes |->
                    IF n \in Keys \/ (there /\ n = Entry) THEN "DirType" ELSE "free"],
      dirEntries |-> [dn \in (Keys \cup RaceInodes) \X {"c", "x", "y", "z"} |->
                    IF dn = <<RootDir, "c">> THEN Container
                    ELSE IF there /\ dn = <<Container, "x">> THEN Entry
                    ELSE NoInode],
      target |-> [abs |-> FALSE, segments |-> <<".">>],
      numEntries |-> 2, linkFails |-> FALSE, missing |-> ~there] :
        there \in BOOLEAN}

PutRaceInit ==
    /\ LlmInit
    /\ vol \in RaceVolumes

PutRaceNext ==
    /\ ~Aborted
    /\ \E t \in RacePutters :
          \/ PutCall(t, RacePath(t))
          \/ PutWalk(t)
          \/ PutEntry(t)
          \/ PutCreate(t)
          \/ PutLink(t)
          \/ PutDeferObstacle(t)
          \/ PutDeferDir(t)
          \/ PutDeferDirEnt(t)
          \/ LockStep(t)

\* Each thread is scheduled as long as it has a step to take; a thread that
\* waits for a lock has none until the lock is released.
PutRaceSpec == PutRaceInit /\ [][PutRaceNext]_vars /\ WF_vars(PutRaceNext)

\* Both putters have returned.
PutRaceOver ==
    \A t \in RacePutters : fs[t].op = "MiddlewarePutComplete" /\ Returned(t)

\* The directories the calls have created.
RaceDirsCreated == {n \in RaceInodes \ {Entry} : vol.inodes[n] = "DirType"}

\* C38: two PutComplete for different objects under the same subdirectory,
\* missing before them, both return and succeed; the subdirectory is created
\* once, and under it each object's name refers to the file that object's call
\* created.
PutRaceBothSucceed ==
    /\ [](\A t \in RacePutters :
            Returned(t) => fs[t].err = "nil" /\ HoldsAny(t) = {})
    /\ [](PutRaceOver =>
            LET x == vol.dirEntries[<<Container, "x">>]
            IN  /\ x # NoInode
                /\ vol.inodes[x] = "DirType"
                /\ vol.missing => RaceDirsCreated = {x}
                /\ \A t \in RacePutters :
                      /\ vol.inodes[fs[t].fileInodeNumber] = "FileType"
                      /\ vol.dirEntries[<<x, RacePath(t)[1]>>] = fs[t].fileInodeNumber
                /\ fs[1].fileInodeNumber # fs[2].fileInodeNumber)
    /\ \A t \in RacePutters : (fs[t].op = "MiddlewarePutComplete") ~> Returned(t)

\* Both calls have returned on a volume where "x" was missing, and "x" holds
\* both objects.
PutRaceWitness ==
    /\ PutRaceOver
    /\ vol.missing
    /\ \A t \in RacePutters :
          vol.dirEntries[<<vol.dirEntries[<<Container, "x">>], RacePath(t)[1]>>]
              = fs[t].fileInodeNumber


\* -------------------------------------------------------------- Validate

\* The frames of Validate on the thread's stack and the calls of the volume's
\* Validate so far.
ValidateOp(inodeNumber) ==
    [op |-> "Validate", at |-> "entered", inodeNumber |-> inodeNumber,
     frames |-> 1, delegated |-> 0, err |-> "nil"]

\* Line 2370: a client calls mS.Validate(inodeNumber).
ValidateCall(t, inodeNumber) ==
    /\ fs[t].op = "none"
    /\ fs' = [fs EXCEPT ![t] = ValidateOp(inodeNumber)]
    /\ UNCHANGED <<llmVars, vol>>

\* Line 2371: err = mS.Validate(inodeNumber), the method of mountStruct again,
\* in a new frame; without room for it the process ends in a stack overflow.
\* Lines 2372-2377 run when that call has returned, which no frame's does.
ValidateSelf(t) ==
    /\ fs[t].op = "Validate"
    /\ fs[t].at = "entered"
    /\ pc[t] = "idle"
    /\ IF fs[t].frames < MaxStack
       THEN /\ fs' = [fs EXCEPT ![t].frames = @ + 1]
            /\ pc' = pc
       ELSE /\ fs' = [fs EXCEPT ![t].at = "stack overflow"]
            /\ pc' = [pc EXCEPT ![t] = "panic"]
    /\ UNCHANGED <<localLockMap, tracks, globalsMutex, req, myTrack,
                   wakeUp, ret, granted, mustFollow, vol>>

ValidateNext ==
    /\ ~Aborted
    /\ \E t \in Clients :
          \/ \E inodeNumber \in Keys : ValidateCall(t, inodeNumber)
          \/ ValidateSelf(t)

ValidateSpec == FsInit /\ [][ValidateNext]_vars /\ WF_vars(ValidateNext)

\* C39: Validate terminates: it never has a second frame of its own on the
\* stack, and every call returns after one call of the volume's Validate.
ValidateDelegatesOnce ==
    /\ [](\A t \in Clients : fs[t].op = "Validate" => fs[t].frames <= 1)
    /\ \A t \in Clients :
          (fs[t].op = "Validate") ~> (Returned(t) /\ fs[t].delegated = 1)


\* C40: Flock grants every request that overlaps no lock: a lock request with
\* no byte in common with any lock of the list (one that begins exactly where
\* a write lock ends, say) returns nil and is in the list afterwards, and a
\* request that returns TryAgain has a byte in common with a lock of the list.
FlockGrantsDisjoint ==
    \A t \in Flockers :
        (Flocked(t) /\ fs[t].in.Type # "F_UNLCK") =>
            /\ (\A i \in 1..Len(fs[t].before) : ~Overlap(fs[t].in, fs[t].before[i])) =>
                  /\ fs[t].err = "nil"
                  /\ \E i \in 1..Len(vol.flockList) : vol.flockList[i] = fs[t].in
            /\ fs[t].err = "TryAgainError" =>
                  \E i \in 1..Len(fs[t].before) : Overlap(fs[t].in, fs[t].before[i])

============================================================================
